---- MODULE Spec2Model ----
(***************************************************************************)
(* Generation orchestration pipeline of nano-studio-pro                    *)
(* (apps/nano-studio-pro/services/geminiService.ts): the retry controller  *)
(* runWithRetry, the analysis and generation adapters, and the strategy    *)
(* dispatch of processImagesWithGemini / upscaleImage.                     *)
(*                                                                         *)
(* Text that the code inspects character by character (error messages,     *)
(* angle labels, filenames) is a sequence of one-character strings.        *)
(***************************************************************************)
EXTENDS Integers, Sequences, FiniteSets, TLC

VARIABLES input, pc, primary, units, completed, outcome, obs, rc, twin, gen, app

vars == <<input, pc, primary, units, completed, outcome, obs, rc, twin, gen, app>>

(***************************************************************************)
(* Bounds of the model.                                                    *)
(***************************************************************************)
\* longest source-image list handed to processImagesWithGemini
MaxImages == 2
\* longest explicit angle selection handed to processImagesWithGemini
MaxAngles == 2
\* largest explicit `retries` argument tried on runWithRetry in isolation
MaxRetriesArg == 3
\* how many calls of one request the service keeps answering with transient
\* errors at the same time (each of them as often as it likes)
MaxRetrying == 1

(***************************************************************************)
(* Text helpers (String.prototype.includes / toLowerCase / split /         *)
(* replace as the code uses them).                                         *)
(***************************************************************************)
UpperChars == <<"A","B","C","D","E","F","G","H","I","J","K","L","M",
                "N","O","P","Q","R","S","T","U","V","W","X","Y","Z">>
LowerChars == <<"a","b","c","d","e","f","g","h","i","j","k","l","m",
                "n","o","p","q","r","s","t","u","v","w","x","y","z">>

Whitespace == {" ", "\t", "\n"}

LowerOf == [c \in {UpperChars[i] : i \in 1..Len(UpperChars)} |->
               LowerChars[CHOOSE i \in 1..Len(UpperChars) : UpperChars[i] = c]]

ToLowerCase(s) ==
    [i \in 1..Len(s) |-> IF s[i] \in DOMAIN LowerOf THEN LowerOf[s[i]] ELSE s[i]]

ToUpperCase(s) ==
    [i \in 1..Len(s) |->
        IF \E k \in 1..Len(LowerChars) : LowerChars[k] = s[i]
        THEN UpperChars[CHOOSE k \in 1..Len(LowerChars) : LowerChars[k] = s[i]]
        ELSE s[i]]

Includes(s, sub) ==
    \E i \in 1..(Len(s) - Len(sub) + 1) : SubSeq(s, i, i + Len(sub) - 1) = sub

\* s.split(' ')[0]
SplitFirst(s) ==
    IF \E i \in 1..Len(s) : s[i] = " "
    THEN SubSeq(s, 1, (CHOOSE i \in 1..Len(s) :
                          s[i] = " " /\ \A j \in 1..(i-1) : s[j] # " ") - 1)
    ELSE s

\* s.replace(/\s+/g, '-')
RECURSIVE ReplaceWhitespaceRuns(_)
ReplaceWhitespaceRuns(s) ==
    IF s = <<>> THEN <<>>
    ELSE IF Head(s) \in Whitespace
         THEN IF Len(s) > 1 /\ s[2] \in Whitespace
              THEN ReplaceWhitespaceRuns(Tail(s))
              ELSE <<"-">> \o ReplaceWhitespaceRuns(Tail(s))
         ELSE <<Head(s)>> \o ReplaceWhitespaceRuns(Tail(s))

\* s.slice(0, n)
Slice0(s, n) == SubSeq(s, 1, IF Len(s) < n THEN Len(s) ELSE n)

(***************************************************************************)
(* Errors: what `catch (e)` sees.  status 0 stands for "no status field".  *)
(***************************************************************************)
NoStatus == 0

\* an error object with a message, and one without (e.message undefined)
Err(status, message) == [status |-> status, hasMessage |-> TRUE, message |-> message]
ErrNoMsg(status) == [status |-> status, hasMessage |-> FALSE, message |-> <<>>]

MsgNoCandidates == <<"N","o"," ","c","a","n","d","i","d","a","t","e","s"," ","r","e","t","u","r","n","e","d"," ","f","r","o","m"," ","t","h","e"," ","m","o","d","e","l",".">>
MsgNoImage == <<"N","o"," ","i","m","a","g","e"," ","g","e","n","e","r","a","t","e","d",".">>
MsgTextPrefix == <<"M","o","d","e","l"," ","r","e","t","u","r","n","e","d"," ","t","e","x","t"," ","i","n","s","t","e","a","d"," ","o","f"," ","i","m","a","g","e",":"," ">>
MsgEllipsis == <<".",".",".">>

ErrNoApiKey == Err(NoStatus, <<"A","P","I"," ","K","e","y"," ","n","o","t"," ","p","r","o","v","i","d","e","d",".">>)
ErrInvalidPreset == Err(NoStatus, <<"I","n","v","a","l","i","d"," ","p","r","e","s","e","t"," ","s","e","l","e","c","t","e","d">>)
ErrUndefinedFile == Err(NoStatus, <<"f","i","l","e"," ","o","f"," ","u","n","d","e","f","i","n","e","d">>)

\* Errors the remote service (the SDK call) can raise.
RemoteTransientErrors ==
    { Err(429, <<"b","u","s","y">>),
      Err(NoStatus, <<"e","r","r"," ","4","2","9">>),
      Err(NoStatus, <<"Q","u","o","t","a"," ","h","i","t">>),
      ErrNoMsg(503),
      Err(NoStatus, <<"g","o","t"," ","5","0","3">>) }

RemoteTerminalErrors ==
    { Err(400, <<"b","a","d">>),
      ErrNoMsg(500),
      Err(403, <<"d","e","n","i","e","d">>) }

\* Errors of the authentication class (invalid or expired credential): the
\* service words them as it likes.
RemoteAuthErrors ==
    { Err(403, <<"d","e","n","i","e","d">>),
      Err(NoStatus, <<"R","e","q","u","e","s","t","e","d"," ","e","n","t","i","t","y"," ","w","a","s"," ","n","o","t"," ","f","o","u","n","d",".">>),
      Err(403, <<"Q","u","o","t","a"," ","p","r","o","j","e","c","t"," ","d","e","n","i","e","d">>),
      Err(NoStatus, <<"4","0","3"," ","F","o","r","b","i","d","d","e","n">>) }

RemoteErrors == RemoteTransientErrors \cup RemoteTerminalErrors \cup RemoteAuthErrors

(***************************************************************************)
(* Retry controller: runWithRetry.  A controller record is one activation  *)
(* of runWithRetry: pc "call" = fn() has been invoked and is awaited,      *)
(* "wait" = inside delay(10000), "returned" / "thrown" = settled.          *)
(*   calls = invocations of fn, waits = delays started,                    *)
(*   log   = what this activation passed to onStatusUpdate.                *)
(***************************************************************************)
DefaultRetries == 10
WaitTime == 10000

NoError == [status |-> -1, hasMessage |-> FALSE, message |-> <<>>]
NoValue == [none |-> TRUE]
NoCtl == [pc |-> "idle"]
\* no response of the generation model seen yet
NoGen == [answered |-> FALSE]
\* processImagesWithGemini called by another caller than the App component
NoApp == [mounted |-> FALSE]

RetryingMsg(attempt, retries) ==
    [kind |-> "retrying", secs |-> 10, attempt |-> attempt, retries |-> retries]
ResumingMsg == [kind |-> "resuming"]

IsRateLimit(e) ==
    \/ e.status = 429
    \/ e.hasMessage /\ Includes(e.message, <<"4","2","9">>)
    \/ e.hasMessage /\ Includes(ToLowerCase(e.message), <<"q","u","o","t","a">>)

IsServerOverload(e) ==
    \/ e.status = 503
    \/ e.hasMessage /\ Includes(e.message, <<"5","0","3">>)

\* runWithRetry entered: attempt = 0 and fn() invoked (line 17-20)
NewCall(hasSink, retries) ==
    [pc |-> "call", sink |-> hasSink, retries |-> retries, attempt |-> 0,
     calls |-> 1, waits |-> 0, wait |-> 0, log |-> <<>>,
     err |-> NoError, value |-> NoValue]

\* return await fn()  (line 20)
RetryOnSuccess(c, v) == [c EXCEPT !.pc = "returned", !.value = v]

\* faulty variant: the cap is tested with >= instead of >
RetryOnFailure_CapOffByOne(c, e) ==
    LET attempt == c.attempt + 1 IN
    IF attempt >= c.retries
    THEN [c EXCEPT !.pc = "thrown", !.attempt = attempt, !.err = e]
    ELSE IF IsRateLimit(e) \/ IsServerOverload(e)
         THEN [c EXCEPT !.pc = "wait", !.attempt = attempt, !.err = e,
                        !.waits = c.waits + 1, !.wait = WaitTime,
                        !.log = IF c.sink
                                THEN Append(c.log, RetryingMsg(attempt, c.retries))
                                ELSE c.log]
         ELSE [c EXCEPT !.pc = "thrown", !.attempt = attempt, !.err = e]

\* faulty variant: every failure is retried until the cap
RetryOnFailure_RetryAll(c, e) ==
    LET attempt == c.attempt + 1 IN
    IF attempt > c.retries
    THEN [c EXCEPT !.pc = "thrown", !.attempt = attempt, !.err = e]
    ELSE [c EXCEPT !.pc = "wait", !.attempt = attempt, !.err = e,
                   !.waits = c.waits + 1, !.wait = WaitTime,
                   !.log = IF c.sink
                           THEN Append(c.log, RetryingMsg(attempt, c.retries))
                           ELSE c.log]

\* catch (e) { ... }  (lines 21-45)
RetryOnFailure(c, e) ==
    LET attempt == c.attempt + 1 IN
    IF attempt > c.retries
    THEN [c EXCEPT !.pc = "thrown", !.attempt = attempt, !.err = e]
    ELSE IF IsRateLimit(e) \/ IsServerOverload(e)
         THEN [c EXCEPT !.pc = "wait", !.attempt = attempt, !.err = e,
                        !.waits = c.waits + 1, !.wait = WaitTime,
                        !.log = IF c.sink
                                THEN Append(c.log, RetryingMsg(attempt, c.retries))
                                ELSE c.log]
         ELSE [c EXCEPT !.pc = "thrown", !.attempt = attempt, !.err = e]

\* faulty variant: the loop continues only inside the test for a status sink
RetryAfterDelay_SinkOnly(c) ==
    IF c.sink
    THEN [c EXCEPT !.pc = "call", !.calls = c.calls + 1, !.wait = 0, !.err = NoError,
                   !.log = Append(c.log, ResumingMsg)]
    ELSE [c EXCEPT !.pc = "thrown", !.wait = 0]

\* faulty variant: the loop continues without telling the status sink
RetryAfterDelay_Silent(c) ==
    [c EXCEPT !.pc = "call", !.calls = c.calls + 1, !.wait = 0, !.err = NoError]

\* delay elapsed: "Resuming processing...", continue, fn() again (lines 38-41, 20)
RetryAfterDelay(c) ==
    [c EXCEPT !.pc = "call", !.calls = c.calls + 1, !.wait = 0, !.err = NoError,
              !.log = IF c.sink THEN Append(c.log, ResumingMsg) ELSE c.log]

(***************************************************************************)
(* runWithRetry in isolation: rc is one activation with an arbitrary       *)
(* `retries` argument and an operation whose every call either returns or  *)
(* raises one of RemoteErrors.                                             *)
(***************************************************************************)

IdleInput == [op |-> "none"]
\* nothing observed yet
NoObs == [remote |-> FALSE, waited |-> FALSE, sink |-> FALSE, late |-> FALSE]

InitRetry ==
    /\ rc \in {NewCall(s, r) : s \in BOOLEAN, r \in ((0..MaxRetriesArg) \cup {DefaultRetries})}
    /\ input = IdleInput
    /\ pc = "idle"
    /\ primary = NoCtl
    /\ units = <<>>
    /\ completed = <<>>
    /\ outcome = [state |-> "pending", results |-> <<>>, error |-> NoError]
    /\ obs = NoObs
    /\ twin = NoCtl
    /\ gen = NoGen
    /\ app = NoApp

pipelineVars == <<input, pc, primary, units, completed, outcome, obs>>

RcReturns ==
    /\ rc.pc = "call"
    /\ rc' = RetryOnSuccess(rc, [data |-> "ok"])
    /\ UNCHANGED <<pipelineVars, twin, gen, app>>

RcFails ==
    /\ rc.pc = "call"
    /\ \E e \in RemoteErrors : rc' = RetryOnFailure(rc, e)
    /\ UNCHANGED <<pipelineVars, twin, gen, app>>

RcDelayElapsed ==
    /\ rc.pc = "wait"
    /\ rc' = RetryAfterDelay(rc)
    /\ UNCHANGED <<pipelineVars, twin, gen, app>>

NextRetry == RcReturns \/ RcFails \/ RcDelayElapsed

SpecRetry == InitRetry /\ [][NextRetry]_vars

(***************************************************************************)
(* Requests: the arguments of processImagesWithGemini / upscaleImage.      *)
(***************************************************************************)
GHOST_MANNEQUIN == "GHOST_MANNEQUIN"
LIFESTYLE == "LIFESTYLE"
ANGLES == "ANGLES"
BG_REMOVE_REPAIR == "BG_REMOVE_REPAIR"
\* a strategy id that is none of the presets
UnknownPreset == "UNKNOWN"

PRESETS == << [id |-> GHOST_MANNEQUIN], [id |-> ANGLES],
              [id |-> BG_REMOVE_REPAIR], [id |-> LIFESTYLE] >>

\* faulty variant: the preset is not looked up
PresetFound_Unchecked(presetId) == TRUE

\* PRESETS.find(p => p.id === presetId) is defined
PresetFound(presetId) == \E i \in 1..Len(PRESETS) : PRESETS[i].id = presetId

AngleFront == <<"F","r","o","n","t"," ","V","i","e","w">>
AngleSide == <<"S","i","d","e"," ","V","i","e","w">>
AngleThreeQuarter == <<"3","/","4"," ","P","e","r","s","p","e","c","t","i","v","e"," ","V","i","e","w">>
AngleComposite == <<"F","r","o","n","t"," ","&"," ","B","a","c","k"," ","C","o","m","p","o","s","i","t","e">>

AVAILABLE_ANGLES ==
    <<AngleFront, AngleSide,
      <<"B","a","c","k"," ","V","i","e","w">>,
      AngleThreeQuarter,
      <<"T","o","p"," ","D","o","w","n"," ","V","i","e","w"," ","(","F","l","a","t"," ","L","a","y",")">>,
      <<"C","l","o","s","e","-","u","p"," ","D","e","t","a","i","l">>,
      AngleComposite>>

\* faulty variant: the fallback lacks the third angle
DefaultAngles_Two == <<AngleFront, AngleSide>>

\* the fallback of line 271
DefaultAngles == <<AngleFront, AngleSide, AngleThreeQuarter>>

\* The angle labels explicit selections are drawn from.
AnglePool == {AngleFront, AngleSide, AngleComposite}

\* an angle selection as the toggles of the app build it: no label twice
AngleSelections ==
    { a \in UNION {[1..k -> AnglePool] : k \in 0..MaxAngles} :
        \A i, j \in 1..Len(a) : i # j => a[i] # a[j] }

AngleArgs(presetId) ==
    IF presetId = ANGLES
    THEN {[given |-> FALSE, list |-> <<>>]}
         \cup {[given |-> TRUE, list |-> a] : a \in AngleSelections}
    ELSE {[given |-> TRUE, list |-> DefaultAngles]}

\* Source image k of a request: only the second and third carry the label
\* 'Front View', so the primary image is found by label, by position or both.
SourceLabel(k) == IF k \in {2, 3} THEN "Front View" ELSE "Back View"

SourceImages(n) == [k \in 1..n |-> [id |-> k, label |-> SourceLabel(k)]]

\* The other arguments of a call: template, style reference, body type,
\* aspect ratio, environment, scene addendum, quality.

ProcessCall(p, key, s, images, angles, opt) ==
    [op |-> "process", presetId |-> p, apiKey |-> key, hasSink |-> s,
     sourceImages |-> images, targetAngles |-> angles,
     customPrompt |-> opt.customPrompt, referenceImage |-> opt.referenceImage,
     bodyType |-> opt.bodyType, targetAspectRatio |-> opt.targetAspectRatio,
     environment |-> opt.environment, additionalContext |-> opt.additionalContext,
     imageQuality |-> opt.imageQuality]

ProcessRequests ==
    UNION { { ProcessCall(p, key, s, SourceImages(n), a,
                          [customPrompt |-> <<[o |-> "template", s |-> "shot"]>>,
                           referenceImage |-> FALSE, bodyType |-> <<>>,
                           targetAspectRatio |-> "1:1", environment |-> "",
                           additionalContext |-> "", imageQuality |-> "1K"])
              : a \in AngleArgs(p) }
            : p \in {GHOST_MANNEQUIN, LIFESTYLE, ANGLES, BG_REMOVE_REPAIR, UnknownPreset},
              key \in BOOLEAN, s \in BOOLEAN, n \in 0..MaxImages }

UpscaleRequests ==
    { [op |-> "upscale", presetId |-> UnknownPreset, apiKey |-> key, hasSink |-> s,
       sourceImages |-> <<>>, targetAngles |-> [given |-> FALSE, list |-> <<>>],
       resolution |-> res]
      : key \in BOOLEAN, s \in BOOLEAN, res \in {"2K", "4K"} }

(***************************************************************************)
(* The remote service and the two adapters.                                *)
(***************************************************************************)
\* errors the service raises on a pipeline call
ServiceErrors == { Err(429, <<"b","u","s","y">>), Err(400, <<"b","a","d">>) }

StemDefault == <<"p","r","o","c","e","s","s","e","d","-","p","r","o","d","u","c","t">>
StemNike == <<"N","i","k","e","-","R","e","d">>

\* response.text of the analysis model
AnalysisReplies ==
    { [kind |-> "object", description |-> "D1", filename |-> StemNike, text |-> <<>>],
      [kind |-> "object", description |-> "D2", filename |-> <<>>, text |-> <<>>],
      [kind |-> "empty", description |-> "", filename |-> <<>>, text |-> <<>>],
      [kind |-> "null", description |-> "", filename |-> <<>>, text |-> <<>>],
      [kind |-> "malformed", description |-> "", filename |-> <<>>,
       text |-> <<"o","o","p","s">>],
      [kind |-> "malformed", description |-> "", filename |-> <<>>,
       text |-> <<"4","2","9">>] }

AnalysisOutcomes ==
    {[raised |-> TRUE, err |-> e, reply |-> [kind |-> "none", description |-> "", filename |-> <<>>, text |-> <<>>]] : e \in ServiceErrors}
    \cup {[raised |-> FALSE, err |-> NoError, reply |-> r] : r \in AnalysisReplies}

\* The message of the SyntaxError of JSON.parse depends on the engine: some
\* quote the offending text, some do not.
JsonSyntaxErrors(text) ==
    { Err(NoStatus, <<"U","n","e","x","p","e","c","t","e","d"," ","t","o","k","e","n">>), Err(NoStatus, <<"U","n","e","x","p","e","c","t","e","d"," ","t","o","k","e","n">>
    \o <<" ">>
    \o text) }

\* What one invocation of the wrapped analysis function can do (lines 87-118):
\* the set of its possible results for one outcome of the remote call.
AnalyzeFn(o) ==
    IF o.raised THEN {[ok |-> FALSE, err |-> o.err, value |-> NoValue]}
    ELSE IF o.reply.kind = "malformed"
    THEN {[ok |-> FALSE, err |-> e, value |-> NoValue] : e \in JsonSyntaxErrors(o.reply.text)}
    ELSE IF o.reply.kind = "null"
    THEN {[ok |-> FALSE, err |-> Err(NoStatus, <<"d","e","s","c","r","i","p","t","i","o","n"," ","o","f"," ","n","u","l","l">>), value |-> NoValue]}
    ELSE {[ok |-> TRUE, err |-> NoError,
           value |-> [description |-> o.reply.description,
                      filename |-> IF o.reply.filename = <<>> THEN StemDefault
                                   ELSE o.reply.filename]]}

\* faulty variant: the failure of the analysis propagates
AnalysisSettled_Propagate(c) ==
    IF c.pc = "returned" THEN [rejected |-> FALSE, value |-> c.value]
    ELSE [rejected |-> TRUE, value |-> [description |-> "", filename |-> StemDefault]]

\* faulty variant: the failed analysis hands out the stem of the missing credential
AnalysisSettled_ProductStem(c) ==
    IF c.pc = "returned" THEN [rejected |-> FALSE, value |-> c.value]
    ELSE [rejected |-> FALSE,
          value |-> [description |-> "", filename |-> <<"p","r","o","d","u","c","t">>]]

\* .catch(e => ({description: "", filename: "processed-product"}))  (119-122)
AnalysisSettled(c) ==
    IF c.pc = "returned" THEN [rejected |-> FALSE, value |-> c.value]
    ELSE [rejected |-> FALSE, value |-> [description |-> "", filename |-> StemDefault]]

\* if (!apiKey) return {description: "", filename: "product"}  (line 83)
AnalysisWithoutKey == [description |-> "", filename |-> <<"p","r","o","d","u","c","t">>]

\* Parts of a response candidate.
ImagePart(data) == [inline |-> TRUE, empty |-> FALSE, data |-> data, text |-> <<>>]
\* inlineData whose data is the empty string
EmptyImagePart == [inline |-> TRUE, empty |-> TRUE, data |-> NoValue, text |-> <<>>]
TextPart(text) == [inline |-> FALSE, empty |-> TRUE, data |-> NoValue, text |-> text]

TextSorry == <<"s","o","r","r","y">>
TextQuota == <<"q","u","o","t","a"," ","l","o","w">>

\* The image the service renders for a request: it names the request.
Render(req, n) == [of |-> req, n |-> n]

\* Responses of the generation model to a request: every shape of response
\* for the single call of upscaleImage, the shapes that decide between
\* success and the kinds of failure for the calls of a batch.
GenResponses(req) ==
    { [candidate |-> FALSE, parts |-> <<>>, text |-> <<>>],
      [candidate |-> TRUE, parts |-> <<ImagePart(Render(req, 1))>>, text |-> <<>>],
      [candidate |-> TRUE, parts |-> <<TextPart(TextSorry), ImagePart(Render(req, 1))>>,
       text |-> TextSorry],
      [candidate |-> TRUE, parts |-> <<TextPart(TextSorry)>>, text |-> TextSorry] }
    \cup
    IF req.kind # "upscale" THEN {}
    ELSE
    { [candidate |-> TRUE, parts |-> <<>>, text |-> <<>>],
      [candidate |-> TRUE, parts |-> <<EmptyImagePart>>, text |-> <<>>],
      [candidate |-> TRUE,
       parts |-> <<EmptyImagePart, ImagePart(Render(req, 2)), ImagePart(Render(req, 3))>>,
       text |-> <<>>],
      [candidate |-> TRUE, parts |-> <<TextPart(TextQuota)>>, text |-> TextQuota] }

NoResponse == [candidate |-> FALSE, parts |-> <<>>, text |-> <<>>]

GenOutcomes(req) ==
    {[raised |-> TRUE, err |-> e, response |-> NoResponse] : e \in ServiceErrors}
    \cup {[raised |-> FALSE, err |-> NoError, response |-> r] : r \in GenResponses(req)}

\* part.inlineData && part.inlineData.data  (line 160)
HasData(part) == part.inline /\ ~part.empty

\* faulty variant: the text of the response is looked at before its parts
GenerateFn_TextFirst(o) ==
    IF o.raised THEN [ok |-> FALSE, err |-> o.err, value |-> NoValue]
    ELSE IF ~o.response.candidate
    THEN [ok |-> FALSE, err |-> Err(NoStatus, MsgNoCandidates), value |-> NoValue]
    ELSE IF o.response.text # <<>>
    THEN [ok |-> FALSE,
          err |-> Err(NoStatus, MsgTextPrefix \o Slice0(o.response.text, 150) \o MsgEllipsis),
          value |-> NoValue]
    ELSE IF \E k \in 1..Len(o.response.parts) : HasData(o.response.parts[k])
    THEN LET k == CHOOSE k \in 1..Len(o.response.parts) :
                     /\ HasData(o.response.parts[k])
                     /\ \A j \in 1..(k-1) : ~HasData(o.response.parts[j])
         IN [ok |-> TRUE, err |-> NoError,
             value |-> [url |-> o.response.parts[k].data]]
    ELSE [ok |-> FALSE, err |-> Err(NoStatus, MsgNoImage), value |-> NoValue]

\* What one invocation of the wrapped generation function does (lines 134-170).
GenerateFn(o) ==
    IF o.raised THEN [ok |-> FALSE, err |-> o.err, value |-> NoValue]
    ELSE IF ~o.response.candidate
    THEN [ok |-> FALSE, err |-> Err(NoStatus, MsgNoCandidates), value |-> NoValue]
    ELSE IF \E k \in 1..Len(o.response.parts) : HasData(o.response.parts[k])
    THEN LET k == CHOOSE k \in 1..Len(o.response.parts) :
                     /\ HasData(o.response.parts[k])
                     /\ \A j \in 1..(k-1) : ~HasData(o.response.parts[j])
         IN [ok |-> TRUE, err |-> NoError,
             value |-> [url |-> o.response.parts[k].data]]
    ELSE IF o.response.text # <<>>
    THEN [ok |-> FALSE,
          err |-> Err(NoStatus, MsgTextPrefix \o Slice0(o.response.text, 150) \o MsgEllipsis),
          value |-> NoValue]
    ELSE [ok |-> FALSE, err |-> Err(NoStatus, MsgNoImage), value |-> NoValue]

(***************************************************************************)
(* Units of work.  A unit is one callback of sourceImages.map /            *)
(* anglesToGenerate.map, or the single generation of the composite         *)
(* strategies and of upscaleImage.                                         *)
(*   pc: "analyze" (awaiting analyzeProductFeatures), "generate" (awaiting *)
(*       callGeminiGenerator), "done", "failed";                           *)
(*   analyzed: how the analysis the unit is grounded on settled: its       *)
(*       wrapped call "returned" or was "thrown", or it was "skipped" for  *)
(*       want of a credential ("none" before it settles or when there is   *)
(*       no analysis).                                                     *)
(* A settled controller keeps only its pc, a waiting one drops the caught  *)
(* error: neither is read again by the code.                               *)
(***************************************************************************)
Park(c) ==
    IF c.pc \in {"returned", "thrown"} THEN [pc |-> c.pc]
    ELSE IF c.pc = "wait" THEN [c EXCEPT !.err = NoError]
    ELSE c

NoAnalysis == [description |-> "", filename |-> <<>>]
NoRequest == [kind |-> "none"]
NoResult == [url |-> NoValue, filename |-> <<>>]

\* faulty variant: the label is not cut at its first space
AngleSuffix_WholeLabel(angle) == ReplaceWhitespaceRuns(ToLowerCase(angle))

\* angle.split(' ')[0].toLowerCase().replace(/\s+/g, '-')  (line 296)
AngleSuffix(angle) == ReplaceWhitespaceRuns(ToLowerCase(SplitFirst(angle)))

\* faulty variant: the first source image is taken whatever its label
PrimaryIndex_First(images) == 1

\* sourceImages.find(i => i.label === 'Front View') || sourceImages[0]
PrimaryIndex(images) ==
    IF \E k \in 1..Len(images) : images[k].label = "Front View"
    THEN CHOOSE k \in 1..Len(images) :
            /\ images[k].label = "Front View"
            /\ \A j \in 1..(k-1) : images[j].label # "Front View"
    ELSE 1

(***************************************************************************)
(* Prompt composition.  An instruction text is a sequence of tokens; a     *)
(* token is a piece of text s together with where it comes from (o): the   *)
(* caller's template ("template"), the value of an argument ("arg"), a     *)
(* literal of the code ("system") or the analysis ("analysis").  The       *)
(* string operations of the code look at s only.  Texts of arguments that  *)
(* the code takes apart (body type, angle label) enter character by        *)
(* character.                                                              *)
(***************************************************************************)
Sys(s) == <<[o |-> "system", s |-> s]>>
Arg(s) == <<[o |-> "arg", s |-> s]>>
ArgChars(cs) == [i \in 1..Len(cs) |-> [o |-> "arg", s |-> cs[i]]]
Tpl(s) == [o |-> "template", s |-> s]

\* text.includes(ph)
TextIncludes(text, ph) == \E i \in 1..Len(text) : text[i].s = ph

\* text.replace(ph, repl): the first occurrence only
ReplaceFirst(text, ph, repl) ==
    IF ~TextIncludes(text, ph) THEN text
    ELSE LET i == CHOOSE i \in 1..Len(text) :
                     text[i].s = ph /\ \A j \in 1..(i-1) : text[j].s # ph
         IN SubSeq(text, 1, i - 1) \o repl \o SubSeq(text, i + 1, Len(text))

\* text.trim()
Trim(text) ==
    IF \A i \in 1..Len(text) : text[i].s \in Whitespace THEN <<>>
    ELSE LET first == CHOOSE i \in 1..Len(text) :
                         text[i].s \notin Whitespace
                         /\ \A j \in 1..(i-1) : text[j].s \in Whitespace
             last == CHOOSE i \in 1..Len(text) :
                        text[i].s \notin Whitespace
                        /\ \A j \in (i+1)..Len(text) : text[j].s \in Whitespace
         IN SubSeq(text, first, last)

\* faulty variant: no default for a missing body type
SelectedBodyType_NoDefault(bodyType) == bodyType

\* bodyType || 'Men'  (line 208)
SelectedBodyType(bodyType) == IF bodyType = <<>> THEN <<"M","e","n">> ELSE bodyType

\* strictBodyInstruction  (line 209)
StrictBodyInstruction(bodyType) ==
    Sys("\n\nCRITICAL REQUIREMENT: The target body type for this generation is strict: ")
    \o ArgChars(ToUpperCase(SelectedBodyType(bodyType)))
    \o Sys(". \nIf the prompt implies a human figure, model, or mannequin, it MUST match the ")
    \o ArgChars(SelectedBodyType(bodyType))
    \o Sys(" anatomy and proportions. Do not generate any other gender or age group.")

\* faulty variant: the description is remembered from the first unit composed
Description_Remembered(d) ==
    IF units # <<>> /\ units[1].req.kind # "none"
    THEN <<[o |-> "analysis", s |-> units[1].analysis.description]>>
    ELSE <<[o |-> "analysis", s |-> d]>>

\* ${analysis.description}  (lines 225, 287, 321, 323)
Description(d) == <<[o |-> "analysis", s |-> d]>>

\* customPrompt.replace('<BodyType>', selectedBodyType)  (lines 223, 274)
PromptWithBodyType(customPrompt, bodyType) ==
    ReplaceFirst(customPrompt, "<BodyType>", ArgChars(SelectedBodyType(bodyType)))

\* faulty variant: the constraint is put in front of the template
AugmentedPrompt_ClauseFirst(customPrompt, bodyType, description) ==
    StrictBodyInstruction(bodyType) \o Sys("\n")
    \o PromptWithBodyType(customPrompt, bodyType)
    \o Sys("\n\nIMPORTANT - PRESERVE THESE DETECTED PRODUCT DETAILS:\n") \o Description(description)

\* augmentedPrompt  (line 225)
AugmentedPrompt(customPrompt, bodyType, description) ==
    PromptWithBodyType(customPrompt, bodyType) \o Sys("\n")
    \o StrictBodyInstruction(bodyType)
    \o Sys("\n\nIMPORTANT - PRESERVE THESE DETECTED PRODUCT DETAILS:\n")
    \o Description(description)

\* angleInstruction  (lines 277-280)
AngleInstruction(angle) ==
    IF angle = <<"C","o","m","b","i","n","e","d"," ","F","r","o","n","t"," ","a","n","d"," ","B","a","c","k"," ","V","i","e","w"," ","S","i","d","e","-","b","y","-","S","i","d","e">> \/ angle = AngleComposite
    THEN Sys("Create a single composite image showing both the Front View and Back View of the product side-by-side. Ensure both sides are clearly visible, same size, and evenly lit on a white background.")
    ELSE ArgChars(angle)

\* anglePrompt  (lines 283-285)
AnglePrompt(customPrompt, bodyType, angle) ==
    IF TextIncludes(PromptWithBodyType(customPrompt, bodyType), "{{ANGLE}}")
    THEN ReplaceFirst(PromptWithBodyType(customPrompt, bodyType), "{{ANGLE}}",
                      AngleInstruction(angle))
    ELSE Sys("Generate view: ") \o AngleInstruction(angle) \o Sys(". ")
         \o PromptWithBodyType(customPrompt, bodyType)

\* faulty variant: the description of the analysis is not appended
AnglePromptWithAnalysis_NoDescription(customPrompt, bodyType, angle, description) ==
    AnglePrompt(customPrompt, bodyType, angle) \o Sys("\n")
    \o StrictBodyInstruction(bodyType) \o Sys("\n\nIMPORTANT - PRESERVE THESE DETECTED PRODUCT DETAILS:\n")

\* anglePromptWithAnalysis  (line 287)
AnglePromptWithAnalysis(customPrompt, bodyType, angle, description) ==
    AnglePrompt(customPrompt, bodyType, angle) \o Sys("\n")
    \o StrictBodyInstruction(bodyType)
    \o Sys("\n\nIMPORTANT - PRESERVE THESE DETECTED PRODUCT DETAILS:\n")
    \o Description(description)

\* faulty variant: the scene addendum is appended before the environment
CleanPrompt_SceneFirst(customPrompt, bodyType, environment, additionalContext) ==
    LET stripped == Trim(ReplaceFirst(customPrompt, "{{PROMPT}}", <<>>))
        clean == IF stripped = <<>> THEN customPrompt ELSE stripped
        withBody == ReplaceFirst(clean, "<BodyType>",
                                 ArgChars(SelectedBodyType(bodyType)))
        withScene == IF additionalContext # ""
                     THEN withBody \o Sys("\n\nSPECIFIC SCENE DETAILS: ") \o Arg(additionalContext)
                     ELSE withBody
    IN IF environment # ""
       THEN withScene \o Sys("\n\nENVIRONMENT SETTING: Place the product in an ") \o Arg(environment)
            \o Sys(" setting.")
       ELSE withScene

\* cleanPrompt  (lines 304-317)
CleanPrompt(customPrompt, bodyType, environment, additionalContext) ==
    LET stripped == Trim(ReplaceFirst(customPrompt, "{{PROMPT}}", <<>>))
        clean == IF stripped = <<>> THEN customPrompt ELSE stripped
        withBody == ReplaceFirst(clean, "<BodyType>",
                                 ArgChars(SelectedBodyType(bodyType)))
        withEnv == IF environment # ""
                   THEN withBody
                   \o Sys("\n\nENVIRONMENT SETTING: Place the product in an ")
                   \o Arg(environment)
                        \o Sys(" setting.")
                   ELSE withBody
    IN IF additionalContext # ""
       THEN withEnv \o Sys("\n\nSPECIFIC SCENE DETAILS: ") \o Arg(additionalContext)
       ELSE withEnv

\* finalPromptWithAnalysis  (lines 319-324)
FinalPromptWithAnalysis(presetId, customPrompt, bodyType, environment, additionalContext, description) ==
    IF presetId = LIFESTYLE
    THEN Sys("COMPOSITE TASK: ")
         \o CleanPrompt(customPrompt, bodyType, environment, additionalContext)
         \o Sys("\n") \o StrictBodyInstruction(bodyType)
         \o Sys("\n\nSTRICT REQUIREMENT: The object in the input image is the SOURCE OF TRUTH. Do not regenerate the geometry, text, or logos. You are a compositor, not a designer. Maintain these exact details:\n")
         \o Description(description)
    ELSE CleanPrompt(customPrompt, bodyType, environment, additionalContext)
         \o Sys("\n\nIMPORTANT - PRESERVE THESE DETECTED PRODUCT DETAILS:\n") \o Description(description)

(***************************************************************************)
(* The parts of a generation request: texts and inline images.  An image   *)
(* is the style reference, a source image (id) or the image to upscale.    *)
(***************************************************************************)
PromptPart(text) == [inlineData |-> [role |-> "none", id |-> 0], text |-> text]
InlinePart(image) == [inlineData |-> image, text |-> <<>>]

\* faulty variant: the reference image is used whatever the strategy
UseReferenceImage_Always(referenceImage, presetId) == referenceImage

\* useReferenceImage  (line 205)
UseReferenceImage(referenceImage, presetId) ==
    referenceImage /\ presetId # BG_REMOVE_REPAIR

\* faulty variant: every unit is handed all the source images
PerImageParts_AllImages(img, description) ==
    <<PromptPart(Sys("INPUT 2: PRODUCT IMAGE. This is the object to be processed."))>>
    \o [k \in 1..Len(input.sourceImages) |->
           InlinePart([role |-> "source", id |-> input.sourceImages[k].id])]
    \o <<PromptPart(Sys("TASK: ")
                    \o AugmentedPrompt(input.customPrompt, input.bodyType, description))>>

\* requestParts of the unit of one source image  (lines 227-237)
PerImageParts(img, description) ==
    (IF UseReferenceImage(input.referenceImage, input.presetId)
     THEN <<PromptPart(Sys("INPUT 1: STYLE REFERENCE IMAGE. Use the lighting, background style, and mood from this image. DO NOT use the object in this image.")), InlinePart([role |-> "reference", id |-> 0])>>
     ELSE <<>>)
    \o <<PromptPart(Sys("INPUT 2: PRODUCT IMAGE. This is the object to be processed.")), InlinePart([role |-> "source", id |-> img.id]),
         PromptPart(Sys("TASK: ")
                    \o AugmentedPrompt(input.customPrompt, input.bodyType, description))>>

\* the viewpoint text and the image of every source image  (lines 264-267)
RECURSIVE ViewpointParts(_)
ViewpointParts(images) ==
    IF images = <<>> THEN <<>>
    ELSE <<PromptPart(Sys("Viewpoint: ") \o Arg(Head(images).label)),
           InlinePart([role |-> "source", id |-> Head(images).id])>>
         \o ViewpointParts(Tail(images))

\* contextParts  (lines 252-267)
ContextParts(images) ==
    (IF UseReferenceImage(input.referenceImage, input.presetId)
     THEN <<PromptPart(Sys("========================================\nPART 1: STYLE REFERENCE\nUse the following image ONLY for background style, lighting, and color grading. DO NOT generate the object found in this image.\n========================================")), InlinePart([role |-> "reference", id |-> 0])>>
     ELSE <<>>)
    \o <<PromptPart(Sys("========================================\nPART 2: SOURCE PRODUCT IMAGES\nThe following images define the object you must generate. Preserve the identity, logos, and geometry of this object.\n========================================"))>>
    \o ViewpointParts(images)

\* The request a unit hands to callGeminiGenerator: its parts, image size
\* and aspect ratio; and, for reference, the source images among the parts,
\* the angle and the description the task text is composed from, and the
\* image the description was detected on.
ImageRequest(img, analysis) ==
    [kind |-> "image", source |-> <<img.id>>, angle |-> <<>>,
     description |-> analysis.description, analyzed |-> img.id,
     parts |-> PerImageParts(img, analysis.description),
     imageSize |-> input.imageQuality, aspectRatio |-> "3:4"]

\* faulty variant: the task text is pushed onto the shared context array, so
\* a unit also gets the task texts of the angles before it
AngleRequest_SharedPush(images, angle, analysis) ==
    LET angles == IF input.targetAngles.given /\ input.targetAngles.list # <<>>
                  THEN input.targetAngles.list ELSE DefaultAngles
        upto == CHOOSE j \in 1..Len(angles) : angles[j] = angle
    IN [kind |-> "angle", source |-> [k \in 1..Len(images) |-> images[k].id],
        angle |-> angle, description |-> analysis.description,
        analyzed |-> images[PrimaryIndex(images)].id,
        parts |-> ContextParts(images)
                  \o [j \in 1..upto |->
                         PromptPart(Sys("TASK: ")
                                    \o AnglePromptWithAnalysis(input.customPrompt,
                                          input.bodyType, angles[j],
                                          analysis.description))],
        imageSize |-> input.imageQuality, aspectRatio |-> "3:4"]

AngleRequest(images, angle, analysis) ==
    [kind |-> "angle", source |-> [k \in 1..Len(images) |-> images[k].id],
     angle |-> angle, description |-> analysis.description,
     analyzed |-> images[PrimaryIndex(images)].id,
     parts |-> ContextParts(images)
               \o <<PromptPart(Sys("TASK: ")
                               \o AnglePromptWithAnalysis(input.customPrompt,
                                     input.bodyType, angle, analysis.description))>>,
     imageSize |-> input.imageQuality, aspectRatio |-> "3:4"]

\* faulty variant: the composite is forced to 3:4 like the batches
SingleRequest_ForcedRatio(images, analysis) ==
    [kind |-> "single", source |-> [k \in 1..Len(images) |-> images[k].id],
     angle |-> <<>>, description |-> analysis.description,
     analyzed |-> images[PrimaryIndex(images)].id,
     parts |-> ContextParts(images)
               \o <<PromptPart(Sys("TASK: ")
                               \o FinalPromptWithAnalysis(input.presetId,
                                     input.customPrompt, input.bodyType,
                                     input.environment, input.additionalContext,
                                     analysis.description))>>,
     imageSize |-> input.imageQuality, aspectRatio |-> "3:4"]

SingleRequest(images, analysis) ==
    [kind |-> "single", source |-> [k \in 1..Len(images) |-> images[k].id],
     angle |-> <<>>, description |-> analysis.description,
     analyzed |-> images[PrimaryIndex(images)].id,
     parts |-> ContextParts(images)
               \o <<PromptPart(Sys("TASK: ")
                               \o FinalPromptWithAnalysis(input.presetId,
                                     input.customPrompt, input.bodyType,
                                     input.environment, input.additionalContext,
                                     analysis.description))>>,
     imageSize |-> input.imageQuality, aspectRatio |-> input.targetAspectRatio]

\* faulty variant: the upscale is generated at the default tier
UpscaleRequest_DefaultTier ==
    [kind |-> "upscale", source |-> <<>>, angle |-> <<>>,
     description |-> "", analyzed |-> 0,
     parts |-> <<InlinePart([role |-> "result", id |-> 0]),
                 PromptPart(Sys("Generate a ") \o Arg(input.resolution)
                            \o Sys(" HIGH-RESOLUTION version of this image."))>>,
     imageSize |-> "1K", aspectRatio |-> "1:1"]

\* callGeminiGenerator([imgPart, {text: prompt}], apiKey, resolution, ...)  (179-183)
UpscaleRequest ==
    [kind |-> "upscale", source |-> <<>>, angle |-> <<>>,
     description |-> "", analyzed |-> 0,
     parts |-> <<InlinePart([role |-> "result", id |-> 0]),
                 PromptPart(Sys("Generate a ") \o Arg(input.resolution)
                            \o Sys(" HIGH-RESOLUTION version of this image. \nTASK: Upscale and refine details. \nCRITICAL: Maintain the EXACT product appearance, text, logos, and geometry. Do not alter the content, only enhance sharpness, clarity, and resolution. Output must be photo-realistic."))>>,
     imageSize |-> input.resolution, aspectRatio |-> "1:1"]

\* the filename of a unit's result (lines 241, 297, 331)
ResultFilename(req, analysis) ==
    IF req.kind = "angle"
    THEN analysis.filename \o <<"-">> \o AngleSuffix(req.angle)
    ELSE analysis.filename

\* callGeminiGenerator entered by a unit (lines 132-134).  The field spent
\* is history the code does not keep: the analysis of the unit went through
\* all the backoff waits its runWithRetry allows.
\* faulty variant: the credential is not checked before the call
GenerationUnit_NoKeyCheck(k, req, analysis, analyzed) ==
    [pc |-> "generate", index |-> k, ctl |-> NewCall(input.hasSink, DefaultRetries),
     analysis |-> analysis, analyzed |-> analyzed, req |-> req, result |-> NoResult,
          spent |-> FALSE]

\* faulty variant: the generation goes on counting where the analysis of the
\* unit stopped
GenerationUnit_SharedBudget(k, req, analysis, analyzed) ==
    IF input.apiKey
    THEN [pc |-> "generate", index |-> k,
          ctl |-> [NewCall(input.hasSink, DefaultRetries) EXCEPT
                      !.attempt = IF k <= Len(units) /\ units[k].pc = "analyze"
                                  THEN units[k].ctl.attempt ELSE 0],
          analysis |-> analysis, analyzed |-> analyzed, req |-> req, result |-> NoResult,
          spent |-> FALSE]
    ELSE [pc |-> "failed", index |-> k, ctl |-> [pc |-> "thrown"],
          analysis |-> analysis, analyzed |-> analyzed, req |-> req, result |-> NoResult,
          spent |-> FALSE]

GenerationUnit(k, req, analysis, analyzed) ==
    IF input.apiKey
    THEN [pc |-> "generate", index |-> k, ctl |-> NewCall(input.hasSink, DefaultRetries),
          analysis |-> analysis, analyzed |-> analyzed, req |-> req, result |-> NoResult,
          spent |-> FALSE]
    ELSE [pc |-> "failed", index |-> k, ctl |-> [pc |-> "thrown"],
          analysis |-> analysis, analyzed |-> analyzed, req |-> req, result |-> NoResult,
          spent |-> FALSE]

\* analyzeProductFeatures entered by the unit of source image k (lines 83-87)
AnalysisUnit(k, img) ==
    IF input.apiKey
    THEN [pc |-> "analyze", index |-> k, ctl |-> NewCall(input.hasSink, DefaultRetries),
          analysis |-> NoAnalysis, analyzed |-> "none", req |-> NoRequest,
          result |-> NoResult, spent |-> FALSE]
    ELSE GenerationUnit(k, ImageRequest(img, AnalysisWithoutKey), AnalysisWithoutKey,
                        "skipped")

\* faulty variant: no fallback to the default angles
AnglesToGenerate_NoFallback(targetAngles) == targetAngles.list

\* anglesToGenerate  (line 271)
AnglesToGenerate(targetAngles) ==
    IF targetAngles.given /\ Len(targetAngles.list) > 0
    THEN targetAngles.list
    ELSE DefaultAngles

\* faulty variant: the results are collected as the units complete
PromiseAll_CompletionOrder(us, order) == [k \in 1..Len(us) |-> us[order[k]].result]

\* Promise.all(promises) once every promise is fulfilled
PromiseAll(us, order) == [k \in 1..Len(us) |-> us[k].result]

AllDone(us) == \A k \in 1..Len(us) : us[k].pc = "done"
AnyFailed(us) == \E k \in 1..Len(us) : us[k].pc = "failed"

Pending == [state |-> "pending", results |-> <<>>, error |-> NoError]
Resolved(results) == [state |-> "resolved", results |-> results, error |-> NoError]
Rejected(e) == [state |-> "rejected", results |-> <<>>, error |-> e]

\* faulty variant: a batch of no unit never settles
Settle_EmptyPending(us, order, e) ==
    IF outcome.state # "pending" \/ us = <<>> THEN outcome
    ELSE IF AnyFailed(us) THEN Rejected(e)
    ELSE IF AllDone(us) THEN Resolved(PromiseAll(us, order))
    ELSE outcome

\* faulty variant: the failure of a unit is swallowed, the batch keeps waiting
Settle_IgnoreFailure(us, order, e) ==
    IF outcome.state # "pending" THEN outcome
    ELSE IF AllDone(us) THEN Resolved(PromiseAll(us, order))
    ELSE outcome

\* faulty variant: the batch waits for every unit and returns what succeeded
Settle_Partial(us, order, e) ==
    IF outcome.state # "pending" THEN outcome
    ELSE IF \A k \in 1..Len(us) : us[k].pc \in {"done", "failed"}
    THEN [state |-> "resolved",
          results |-> [k \in 1..Len(SelectSeq(us, LAMBDA u : u.pc = "done")) |->
                          SelectSeq(us, LAMBDA u : u.pc = "done")[k].result],
          error |-> NoError]
    ELSE outcome

\* the promise of the request after its units changed to us, the first
\* rejection being e
Settle(us, order, e) ==
    IF outcome.state # "pending" THEN outcome
    ELSE IF AnyFailed(us) THEN Rejected(e)
    ELSE IF AllDone(us) THEN Resolved(PromiseAll(us, order))
    ELSE outcome

\* some unit of us has a remote call in flight
Issued(us) == \E k \in 1..Len(us) : us[k].ctl.pc = "call"

\* What has been observed of the request so far: a remote call was issued,
\* a backoff wait was started, the status sink was called; and (late) a
\* remote call was issued or a backoff wait started after the promise of the
\* request was rejected.
Observe(remote, waited, sink) ==
    [remote |-> obs.remote \/ remote,
     waited |-> obs.waited \/ waited,
     sink |-> obs.sink \/ (input.hasSink /\ sink),
     late |-> obs.late \/ (outcome.state = "rejected" /\ (remote \/ waited))]

\* the wrapped calls of the request that are being retried
Retrying ==
    LET InRetry(c) == c.pc \in {"call", "wait"} /\ c.attempt > 0
    IN Cardinality({k \in 1..Len(units) : InRetry(units[k].ctl)})
       + (IF InRetry(primary) THEN 1 ELSE 0)

\* the service may start failing transiently on the call of controller c
ServiceAllows(c, next) ==
    (next.pc = "wait" /\ c.attempt = 0) => Retrying < MaxRetrying

(***************************************************************************)
(* processImagesWithGemini and upscaleImage.                               *)
(***************************************************************************)
Init ==
    /\ input \in ProcessRequests \cup UpscaleRequests
    /\ pc = "start"
    /\ primary = NoCtl
    /\ units = <<>>
    /\ completed = <<>>
    /\ outcome = Pending
    /\ obs = NoObs
    /\ rc = NoCtl
    /\ twin = NoCtl
    /\ gen = NoGen
    /\ app = NoApp

\* upscaleImage (lines 173-184)
StartUpscale ==
    /\ pc = "start" /\ input.op = "upscale"
    /\ pc' = "dispatched"
    /\ units' = <<GenerationUnit(1, UpscaleRequest, NoAnalysis, "none")>>
    /\ outcome' = Settle(units', completed, ErrNoApiKey)
    /\ obs' = Observe(Issued(units'), FALSE, TRUE)
    /\ UNCHANGED <<input, primary, completed, rc, twin, gen, app>>

\* if (!preset) throw new Error("Invalid preset selected")  (lines 201-202)
RejectInvalidPreset ==
    /\ pc = "start" /\ input.op = "process"
    /\ ~PresetFound(input.presetId)
    /\ pc' = "dispatched"
    /\ outcome' = Rejected(ErrInvalidPreset)
    /\ UNCHANGED <<input, primary, units, completed, obs, rc, twin, gen, app>>

\* CASE 1: one unit per source image (lines 212-244)
StartPerImage ==
    /\ pc = "start" /\ input.op = "process"
    /\ PresetFound(input.presetId)
    /\ input.presetId = GHOST_MANNEQUIN
    /\ pc' = "dispatched"
    /\ units' = [k \in 1..Len(input.sourceImages) |->
                    AnalysisUnit(k, input.sourceImages[k])]
    /\ outcome' = Settle(units', completed, ErrNoApiKey)
    /\ obs' = Observe(Issued(units'), FALSE, Len(input.sourceImages) > 0)
    /\ UNCHANGED <<input, primary, completed, rc, twin, gen, app>>

\* faulty variant: the single generation is repeated for every source image
DispatchUnits_UnitPerImage(analysis, analyzed) ==
    IF input.presetId = ANGLES
    THEN LET anglesToGenerate == AnglesToGenerate(input.targetAngles) IN
         [j \in 1..Len(anglesToGenerate) |->
             GenerationUnit(j, AngleRequest(input.sourceImages, anglesToGenerate[j],
                                            analysis), analysis, analyzed)]
    ELSE [k \in 1..Len(input.sourceImages) |->
             GenerationUnit(k, SingleRequest(input.sourceImages, analysis), analysis,
                            analyzed)]

\* the units of CASE 2 & 3 once the primary analysis is known (lines 270-331)
DispatchUnits(analysis, analyzed) ==
    IF input.presetId = ANGLES
    THEN LET anglesToGenerate == AnglesToGenerate(input.targetAngles) IN
         [j \in 1..Len(anglesToGenerate) |->
             GenerationUnit(j, AngleRequest(input.sourceImages, anglesToGenerate[j],
                                            analysis), analysis, analyzed)]
    ELSE <<GenerationUnit(1, SingleRequest(input.sourceImages, analysis), analysis,
                          analyzed)>>

\* CASE 2 & 3 up to the first await (lines 246-250)
StartShared ==
    /\ pc = "start" /\ input.op = "process"
    /\ PresetFound(input.presetId)
    /\ input.presetId # GHOST_MANNEQUIN
    /\ IF Len(input.sourceImages) = 0
       THEN /\ pc' = "dispatched"
            /\ outcome' = Rejected(ErrUndefinedFile)
            /\ obs' = Observe(FALSE, FALSE, TRUE)
            /\ UNCHANGED <<primary, units>>
       ELSE IF ~input.apiKey
       THEN /\ pc' = "dispatched"
            /\ units' = DispatchUnits(AnalysisWithoutKey, "skipped")
            /\ outcome' = Settle(units', completed, ErrNoApiKey)
            /\ obs' = Observe(Issued(units'), FALSE, TRUE)
            /\ UNCHANGED primary
       ELSE /\ pc' = "primary"
            /\ primary' = NewCall(input.hasSink, DefaultRetries)
            /\ obs' = Observe(TRUE, FALSE, TRUE)
            /\ UNCHANGED <<units, outcome>>
    /\ UNCHANGED <<input, completed, rc, twin, gen, app>>

\* the analysis call of the primary image settles (lines 87-122, 250-331)
PrimarySettles ==
    /\ pc = "primary" /\ primary.pc = "call"
    /\ \E o \in AnalysisOutcomes : \E r \in AnalyzeFn(o) :
         LET c == IF r.ok THEN RetryOnSuccess(primary, r.value)
                  ELSE RetryOnFailure(primary, r.err)
             a == AnalysisSettled(c)
         IN /\ ServiceAllows(primary, c)
            /\ primary' = Park(c)
            /\ IF c.pc = "wait"
               THEN /\ obs' = Observe(FALSE, TRUE, TRUE)
                    /\ UNCHANGED <<pc, units, outcome>>
               ELSE IF a.rejected
               THEN /\ pc' = "dispatched"
                    /\ outcome' = Rejected(c.err)
                    /\ UNCHANGED <<units, obs>>
               ELSE /\ pc' = "dispatched"
                    /\ units' = DispatchUnits(a.value, c.pc)
                    /\ outcome' = Settle(units', completed, ErrNoApiKey)
                    /\ obs' = Observe(Issued(units'), FALSE, TRUE)
    /\ UNCHANGED <<input, completed, rc, twin, gen, app>>

\* the backoff of the primary analysis elapses (lines 38-41, 20)
PrimaryDelayElapsed ==
    /\ pc = "primary" /\ primary.pc = "wait"
    /\ primary' = RetryAfterDelay(primary)
    /\ obs' = Observe(TRUE, FALSE, TRUE)
    /\ UNCHANGED <<input, pc, units, completed, outcome, rc, twin, gen, app>>

\* the analysis call of the unit of source image k settles (lines 216-240)
UnitAnalysisSettles(k) ==
    /\ pc = "dispatched"
    /\ units[k].pc = "analyze" /\ units[k].ctl.pc = "call"
    /\ \E o \in AnalysisOutcomes : \E r \in AnalyzeFn(o) :
         LET c == IF r.ok THEN RetryOnSuccess(units[k].ctl, r.value)
                  ELSE RetryOnFailure(units[k].ctl, r.err)
             a == AnalysisSettled(c)
         IN /\ ServiceAllows(units[k].ctl, c)
            /\ IF c.pc = "wait"
               THEN /\ units' = [units EXCEPT ![k].ctl = Park(c)]
                    /\ obs' = Observe(FALSE, TRUE, TRUE)
                    /\ UNCHANGED outcome
               ELSE IF a.rejected
               THEN /\ units' = [units EXCEPT ![k].pc = "failed", ![k].ctl = Park(c)]
                    /\ outcome' = Settle(units', completed, c.err)
                    /\ UNCHANGED obs
               ELSE /\ units' = [units EXCEPT ![k] =
                           [GenerationUnit(k, ImageRequest(input.sourceImages[k], a.value),
                                           a.value, c.pc)
                               EXCEPT !.spent = (c.waits = c.retries)]]
                    /\ obs' = Observe(Issued(units'), FALSE, TRUE)
                    /\ outcome' = Settle(units', completed, ErrNoApiKey)
    /\ UNCHANGED <<input, pc, primary, completed, rc, twin, gen, app>>

\* the generation call of unit k settles (lines 134-170, 240-243, 294-300, 330-331)
UnitGenerationSettles(k) ==
    /\ pc = "dispatched"
    /\ units[k].pc = "generate" /\ units[k].ctl.pc = "call"
    /\ \E o \in GenOutcomes(units[k].req) :
         LET r == GenerateFn(o)
             c == IF r.ok THEN RetryOnSuccess(units[k].ctl, r.value)
                  ELSE RetryOnFailure(units[k].ctl, r.err)
         IN /\ ServiceAllows(units[k].ctl, c)
            /\ IF c.pc = "wait"
               THEN /\ units' = [units EXCEPT ![k].ctl = Park(c)]
                    /\ obs' = Observe(FALSE, TRUE, TRUE)
                    /\ UNCHANGED <<completed, outcome>>
               ELSE IF c.pc = "returned"
               THEN /\ units' = [units EXCEPT
                           ![k].pc = "done", ![k].ctl = Park(c),
                           ![k].result = [url |-> c.value.url,
                                          filename |-> ResultFilename(units[k].req,
                                                                      units[k].analysis)]]
                    /\ completed' = Append(completed, k)
                    /\ outcome' = Settle(units', completed', NoError)
                    /\ UNCHANGED obs
               ELSE /\ units' = [units EXCEPT ![k].pc = "failed", ![k].ctl = Park(c)]
                    /\ outcome' = Settle(units', completed, c.err)
                    /\ UNCHANGED <<completed, obs>>
    /\ UNCHANGED <<input, pc, primary, rc, twin, gen, app>>

\* faulty variant: a backoff ends only when no other unit awaits a remote call
UnitDelayElapsed_Exclusive(k) ==
    /\ pc = "dispatched"
    /\ units[k].pc \in {"analyze", "generate"} /\ units[k].ctl.pc = "wait"
    /\ \A j \in 1..Len(units) : j # k => units[j].ctl.pc # "call"
    /\ units' = [units EXCEPT ![k].ctl = RetryAfterDelay(units[k].ctl)]
    /\ obs' = Observe(TRUE, FALSE, TRUE)
    /\ UNCHANGED <<input, pc, primary, completed, outcome, rc, twin, gen, app>>

\* faulty variant: the backoff of a unit is dropped once the request is rejected
UnitDelayElapsed_UntilRejected(k) ==
    /\ pc = "dispatched" /\ outcome.state = "pending"
    /\ units[k].pc \in {"analyze", "generate"} /\ units[k].ctl.pc = "wait"
    /\ units' = [units EXCEPT ![k].ctl = RetryAfterDelay(units[k].ctl)]
    /\ obs' = Observe(TRUE, FALSE, TRUE)
    /\ UNCHANGED <<input, pc, primary, completed, outcome, rc, twin, gen, app>>

\* the backoff of unit k elapses (lines 38-41, 20)
UnitDelayElapsed(k) ==
    /\ pc = "dispatched"
    /\ units[k].pc \in {"analyze", "generate"} /\ units[k].ctl.pc = "wait"
    /\ units' = [units EXCEPT ![k].ctl = RetryAfterDelay(units[k].ctl)]
    /\ obs' = Observe(TRUE, FALSE, TRUE)
    /\ UNCHANGED <<input, pc, primary, completed, outcome, rc, twin, gen, app>>

Next ==
    \/ StartUpscale
    \/ RejectInvalidPreset
    \/ StartPerImage
    \/ StartShared
    \/ PrimarySettles
    \/ PrimaryDelayElapsed
    \/ \E k \in 1..Len(units) : UnitAnalysisSettles(k)
    \/ \E k \in 1..Len(units) : UnitGenerationSettles(k)
    \/ \E k \in 1..Len(units) : UnitDelayElapsed(k)

Spec == Init /\ [][Next]_vars

(***************************************************************************)
(* The pipeline when every remote call eventually returns and every        *)
(* backoff timer eventually fires: as long as a step is pending, a step is *)
(* eventually taken.                                                       *)
(***************************************************************************)
\* the requests it is run on: no status sink, at most one source image, and
\* for the per-angle strategy the first MaxAngles of the default angles
FairRequests ==
    { r \in ProcessRequests \cup UpscaleRequests :
        /\ ~r.hasSink
        /\ Len(r.sourceImages) <= 1
        /\ r.presetId = ANGLES =>
              r.targetAngles.given
              /\ r.targetAngles.list = SubSeq(DefaultAngles, 1, MaxAngles) }

InitFair == Init /\ input \in FairRequests

SpecFair == InitFair /\ [][Next]_vars /\ WF_vars(Next)

(***************************************************************************)
(* The pipeline with and without a style reference: requests with a        *)
(* credential and no status sink, one or more source images, an explicit   *)
(* selection of the first MaxAngles default angles.                        *)
(***************************************************************************)
ContextRequests ==
    { ProcessCall(p, TRUE, FALSE, SourceImages(n),
                  [given |-> TRUE, list |-> SubSeq(DefaultAngles, 1, MaxAngles)],
                  [customPrompt |-> <<[o |-> "template", s |-> "shot"]>>,
                   referenceImage |-> ref, bodyType |-> <<>>,
                   targetAspectRatio |-> "1:1", environment |-> "",
                   additionalContext |-> "", imageQuality |-> "1K"])
        : p \in {GHOST_MANNEQUIN, LIFESTYLE, ANGLES, BG_REMOVE_REPAIR, UnknownPreset},
          n \in 1..MaxImages, ref \in BOOLEAN }
    \cup { r \in UpscaleRequests : r.apiKey /\ ~r.hasSink }

InitContext ==
    /\ input \in ContextRequests
    /\ pc = "start"
    /\ primary = NoCtl
    /\ units = <<>>
    /\ completed = <<>>
    /\ outcome = Pending
    /\ obs = NoObs
    /\ rc = NoCtl
    /\ twin = NoCtl
    /\ gen = NoGen
    /\ app = NoApp

SpecContext == InitContext /\ [][Next]_vars

(***************************************************************************)
(* callGeminiGenerator in isolation (lines 125-171): one call, answered by *)
(* every shape of response, run side by side with the same call made with  *)
(* the opposite choice of status sink (twin), both receiving the same      *)
(* answers of the service.  gen remembers the last answer and what the     *)
(* wrapped function made of it.                                            *)
(***************************************************************************)

ProbeTexts == {TextSorry, TextQuota, <<"c","o","d","e"," ","4","2","9">>, <<"Q","U","O","T","A">>, <<"5","0","3"," ","s","e","e","n">>,
               [i \in 1..160 |-> IF i <= 150 THEN "a" ELSE "b"]}

\* candidates that carry text and no image data
TextOnlyResponses ==
    {[candidate |-> TRUE, parts |-> <<TextPart(t)>>, text |-> t] : t \in ProbeTexts}
    \cup {[candidate |-> TRUE, parts |-> <<EmptyImagePart, TextPart(t)>>, text |-> t]
            : t \in {TextSorry, TextQuota}}

ProbeOutcomes ==
    GenOutcomes(UpscaleRequest)
    \cup {[raised |-> TRUE, err |-> e, response |-> NoResponse] : e \in RemoteErrors}
    \cup {[raised |-> FALSE, err |-> NoError, response |-> r] : r \in TextOnlyResponses}

InitGen ==
    /\ input \in {[op |-> "generate", apiKey |-> key, hasSink |-> s,
                    resolution |-> "2K"] : key \in BOOLEAN, s \in BOOLEAN}
    /\ pc = "start"
    /\ primary = NoCtl
    /\ units = <<>>
    /\ completed = <<>>
    /\ outcome = Pending
    /\ obs = NoObs
    /\ rc = NoCtl
    /\ twin = NoCtl
    /\ gen = NoGen
    /\ app = NoApp

\* the promise of callGeminiGenerator for the controller c of its wrapped call
GenPromise(c) ==
    IF c.pc = "returned" THEN Resolved(<<[url |-> c.value.url, filename |-> <<>>]>>)
    ELSE IF c.pc = "thrown" THEN Rejected(c.err)
    ELSE Pending

\* if (!apiKey) throw ...; return runWithRetry(...)  (lines 132-134)
GenStart ==
    /\ pc = "start" /\ input.op = "generate"
    /\ pc' = "called"
    /\ IF input.apiKey
       THEN /\ rc' = NewCall(input.hasSink, DefaultRetries)
            /\ twin' = NewCall(~input.hasSink, DefaultRetries)
            /\ UNCHANGED outcome
       ELSE /\ outcome' = Rejected(ErrNoApiKey)
            /\ UNCHANGED <<rc, twin>>
    /\ UNCHANGED <<input, primary, units, completed, obs, gen, app>>

\* one run of the wrapped function on the answer o (lines 134-170, 20-45)
GenAnswered(c, o) ==
    IF c.pc # "call" THEN c
    ELSE IF GenerateFn(o).ok THEN RetryOnSuccess(c, GenerateFn(o).value)
    ELSE RetryOnFailure(c, GenerateFn(o).err)

GenSettles ==
    /\ pc = "called" /\ rc.pc = "call"
    /\ \E o \in ProbeOutcomes :
         /\ rc' = GenAnswered(rc, o)
         /\ twin' = GenAnswered(twin, o)
         /\ gen' = [answered |-> TRUE, outcome |-> o, result |-> GenerateFn(o)]
    /\ outcome' = GenPromise(rc')
    /\ UNCHANGED <<input, pc, primary, units, completed, obs, app>>

\* the backoff elapses (lines 38-41, 20)
GenDelayElapsed ==
    /\ pc = "called" /\ rc.pc = "wait"
    /\ rc' = RetryAfterDelay(rc)
    /\ twin' = IF twin.pc = "wait" THEN RetryAfterDelay(twin) ELSE twin
    /\ UNCHANGED <<input, pc, primary, units, completed, outcome, obs, gen, app>>

NextGen == GenStart \/ GenSettles \/ GenDelayElapsed

SpecGen == InitGen /\ [][NextGen]_vars

(***************************************************************************)
(* Composition of the generation requests in isolation: the arguments of   *)
(* processImagesWithGemini range over templates with and without           *)
(* placeholders, style reference, body types, aspect ratios, environment   *)
(* and scene addendum, the call being made directly or by handleProcess of *)
(* the App component from its state; the analysis has settled with any of  *)
(* its values and the generation units are created.                        *)
(***************************************************************************)

Templates == {<<Tpl("shot")>>,
              <<Tpl("shot"), Tpl(" "), Tpl("<BodyType>"), Tpl(" "), Tpl("<BodyType>")>>,
              <<Tpl("{{ANGLE}}"), Tpl(" "), Tpl("shot")>>,
              <<Tpl(" "), Tpl("{{PROMPT}}"), Tpl(" ")>>,
              <<Tpl(" "), Tpl("shot"), Tpl(" "), Tpl("{{PROMPT}}"), Tpl("<BodyType>"), Tpl("\n")>>,
              <<>>}

ComposeRequests ==
    UNION { { ProcessCall(p, TRUE, FALSE, SourceImages(n), a,
                          [customPrompt |-> t, referenceImage |-> ref, bodyType |-> b,
                           targetAspectRatio |-> r, environment |-> e,
                           additionalContext |-> c, imageQuality |-> "1K"])
              : a \in AngleArgs(p), t \in Templates, ref \in BOOLEAN,
                b \in {<<>>, <<"W","o","m","e","n">>, <<"K","i","d">>},
                r \in {"1:1", "3:4", "16:9"}, e \in {"", "Indoor"},
                c \in {"", "at dusk"} }
            : p \in {GHOST_MANNEQUIN, LIFESTYLE, ANGLES, BG_REMOVE_REPAIR},
              n \in 1..MaxImages }

\* what an analysis settles to (lines 112-122)
AnalysisValues ==
    { [description |-> "D1", filename |-> StemNike],
      [description |-> "D2", filename |-> StemDefault],
      [description |-> "", filename |-> StemDefault] }

\* the state of the App component that handleProcess reads (part_001 23-35)
AppStates ==
    { [mounted |-> TRUE, showKeyInput |-> FALSE, apiKey |-> key,
       sourceImages |-> SourceImages(n), selectedPreset |-> p,
       customPrompt |-> <<Tpl("shot"), Tpl(" "), Tpl("<BodyType>")>>,
       referenceImage |-> ref,
       selectedAngles |-> DefaultAngles, bodyType |-> b,
       lifestyleRatio |-> fam, isPortrait |-> por, lifestyleEnv |-> e,
       lifestyleContext |-> "", imageQuality |-> "1K"]
      : key \in BOOLEAN, n \in 0..MaxImages,
        p \in {GHOST_MANNEQUIN, LIFESTYLE, ANGLES, BG_REMOVE_REPAIR, "none"},
        ref \in BOOLEAN, b \in {<<"M","e","n">>, <<"W","o","m","e","n">>},
        fam \in {"3:4", "1:1", "4:3", "16:9"}, por \in BOOLEAN,
        e \in {"Outdoor", "Indoor"} }

\* faulty variant: the orientation flag is read the wrong way round
ResolveAspectRatio_Swapped(presetId, lifestyleRatio, isPortrait) ==
    IF presetId # LIFESTYLE THEN "1:1"
    ELSE IF lifestyleRatio = "1:1" THEN "1:1"
    ELSE IF lifestyleRatio = "4:3" THEN (IF isPortrait THEN "4:3" ELSE "3:4")
    ELSE IF lifestyleRatio = "16:9" THEN (IF isPortrait THEN "16:9" ELSE "9:16")
    ELSE "1:1"

\* targetAspectRatio of handleProcess (part_001 493-503)
ResolveAspectRatio(presetId, lifestyleRatio, isPortrait) ==
    IF presetId # LIFESTYLE THEN "1:1"
    ELSE IF lifestyleRatio = "1:1" THEN "1:1"
    ELSE IF lifestyleRatio = "4:3" THEN (IF isPortrait THEN "3:4" ELSE "4:3")
    ELSE IF lifestyleRatio = "16:9" THEN (IF isPortrait THEN "9:16" ELSE "16:9")
    ELSE "1:1"

InitCompose ==
    /\ \/ /\ app = NoApp
          /\ input \in ComposeRequests
          /\ pc = "start"
       \/ /\ app \in AppStates
          /\ input = IdleInput
          /\ pc = "app"
    /\ primary = NoCtl
    /\ units = <<>>
    /\ completed = <<>>
    /\ outcome = Pending
    /\ obs = NoObs
    /\ rc = NoCtl
    /\ twin = NoCtl
    /\ gen = NoGen

\* handleProcess up to the call of processImagesWithGemini (part_001 484-523)
HandleProcess ==
    /\ pc = "app"
    /\ IF ~app.apiKey
       THEN /\ app' = [app EXCEPT !.showKeyInput = TRUE]
            /\ pc' = "idle"
            /\ UNCHANGED input
       ELSE IF Len(app.sourceImages) = 0 \/ app.selectedPreset = "none"
       THEN /\ pc' = "idle"
            /\ UNCHANGED <<app, input>>
       ELSE /\ pc' = "start"
            /\ input' = ProcessCall(app.selectedPreset, TRUE, TRUE, app.sourceImages,
                           [given |-> TRUE, list |-> app.selectedAngles],
                           [customPrompt |-> app.customPrompt,
                            referenceImage |-> app.referenceImage,
                            bodyType |-> app.bodyType,
                            targetAspectRatio |->
                                ResolveAspectRatio(app.selectedPreset,
                                                   app.lifestyleRatio, app.isPortrait),
                            environment |-> app.lifestyleEnv,
                            additionalContext |-> app.lifestyleContext,
                            imageQuality |-> app.imageQuality])
            /\ UNCHANGED app
    /\ UNCHANGED <<primary, units, completed, outcome, obs, rc, twin, gen>>

\* CASE 1 with every analysis settled: the unit of each source image is
\* composed and issued (lines 212-240)
ComposePerImage ==
    /\ pc = "start" /\ input.op = "process"
    /\ input.presetId = GHOST_MANNEQUIN
    /\ pc' = "dispatched"
    /\ \E a \in [1..Len(input.sourceImages) -> AnalysisValues] :
         units' = [k \in 1..Len(input.sourceImages) |->
                      GenerationUnit(k, ImageRequest(input.sourceImages[k], a[k]),
                                     a[k], "returned")]
    /\ outcome' = Settle(units', completed, ErrNoApiKey)
    /\ obs' = Observe(Issued(units'), FALSE, TRUE)
    /\ UNCHANGED <<input, primary, completed, rc, twin, gen, app>>

\* CASE 2 & 3 with the primary analysis settled: the units are composed and
\* issued (lines 247-330)
ComposeShared ==
    /\ pc = "start" /\ input.op = "process"
    /\ input.presetId \in {ANGLES, LIFESTYLE, BG_REMOVE_REPAIR}
    /\ pc' = "dispatched"
    /\ \E a \in AnalysisValues : units' = DispatchUnits(a, "returned")
    /\ outcome' = Settle(units', completed, ErrNoApiKey)
    /\ obs' = Observe(Issued(units'), FALSE, TRUE)
    /\ UNCHANGED <<input, primary, completed, rc, twin, gen, app>>

NextCompose == HandleProcess \/ ComposePerImage \/ ComposeShared

SpecCompose == InitCompose /\ [][NextCompose]_vars

(***************************************************************************)
(* Properties.                                                             *)
(***************************************************************************)
IsRetryingMsg(m) == m.kind = "retrying"

\* C1: when runWithRetry gives up on an operation that failed with a
\* transient error on every call, the operation was invoked retries + 1
\* times (11 times for the default retries = 10), retries backoff waits were
\* made, and the status sink received the 'retrying' messages numbered
\* 1..retries, each once and in order.
C1_RetryBound ==
    (rc.pc = "thrown" /\ rc.err \in RemoteTransientErrors) =>
        /\ rc.calls = rc.retries + 1
        /\ rc.waits = rc.retries
        /\ rc.retries = 10 => rc.calls = 11
        /\ rc.sink => SelectSeq(rc.log, IsRetryingMsg)
                        = [n \in 1..rc.retries |-> RetryingMsg(n, rc.retries)]
        /\ ~rc.sink => rc.log = <<>>

C1_Witness ==
    /\ rc.pc = "thrown" /\ rc.err \in RemoteTransientErrors
    /\ rc.sink /\ rc.retries = 10 /\ rc.calls = 11 /\ Len(rc.log) = 20

\* C2: a call of the operation that fails with an error that is not
\* transient settles runWithRetry with that error at once: no backoff wait,
\* no further call and no status message are added by that failure (none at
\* all when it is the first attempt), and a settled runWithRetry does
\* nothing more.
C2_TerminalNotRetried ==
    [][ /\ (rc.pc = "call" /\ rc' # rc /\ rc'.err \in RemoteTerminalErrors) =>
              /\ rc'.pc = "thrown"
              /\ rc'.calls = rc.calls /\ rc'.waits = rc.waits /\ rc'.log = rc.log
              /\ rc.attempt = 0 =>
                    (rc'.calls = 1 /\ rc'.waits = 0 /\ rc'.log = <<>>)
        /\ rc.pc = "thrown" => rc' = rc ]_vars

C2_Witness ==
    /\ rc.pc = "thrown" /\ rc.err \in RemoteTerminalErrors
    /\ rc.sink /\ rc.calls = 1 /\ rc.waits = 0 /\ rc.log = <<>>

PerImage == input.op = "process" /\ input.presetId = "GHOST_MANNEQUIN"
PerAngle == input.op = "process" /\ input.presetId = "ANGLES"
Dispatched == pc = "dispatched"
NumImages == Len(input.sourceImages)

\* C3: a per-image batch whose N generation calls all succeeded resolves to
\* N results, the i-th rendered from the request built for source image i,
\* in whatever order the calls completed.
C3_PerImageOrder ==
    (PerImage /\ Dispatched /\ AllDone(units)) =>
        /\ outcome.state = "resolved"
        /\ Len(outcome.results) = NumImages
        /\ \A i \in 1..NumImages :
              /\ outcome.results[i].url.of.kind = "image"
              /\ outcome.results[i].url.of.source = <<input.sourceImages[i].id>>

C3_Witness ==
    /\ PerImage /\ outcome.state = "resolved"
    /\ Len(outcome.results) = 2 /\ completed = <<2, 1>>
    /\ outcome.results[1].url.of.source = <<1>>

\* the first word of a label, lower-cased: what stands before its first space
FirstWordLower(label) ==
    LET stop == IF \E i \in 1..Len(label) : label[i] = " "
                THEN CHOOSE i \in 1..Len(label) :
                        label[i] = " " /\ \A j \in 1..(i-1) : label[j] # " "
                ELSE Len(label) + 1
    IN [i \in 1..(stop - 1) |-> ToLowerCase(label)[i]]

\* C4: a per-angle batch for the angle list a of length M >= 1 whose
\* generation calls all succeeded resolves to M results, the j-th rendered
\* for angle a[j] in whatever order the calls completed and named
\* <analysis stem>-<first word of a[j], lower-cased>; 'Front View' gives the
\* suffix 'front' and 'Side View' gives 'side'.
C4_PerAngleNames ==
    (PerAngle /\ Dispatched /\ Len(units) >= 1 /\ AllDone(units)
       /\ input.targetAngles.given /\ Len(input.targetAngles.list) >= 1) =>
        LET a == input.targetAngles.list IN
        /\ outcome.state = "resolved"
        /\ Len(outcome.results) = Len(a)
        /\ \E stem \in {StemNike, StemDefault} : \A j \in 1..Len(a) :
              /\ outcome.results[j].url.of.angle = a[j]
              /\ outcome.results[j].filename = stem \o <<"-">> \o FirstWordLower(a[j])
              /\ a[j] = <<"F","r","o","n","t"," ","V","i","e","w">> =>
                    outcome.results[j].filename = stem \o <<"-","f","r","o","n","t">>
              /\ a[j] = <<"S","i","d","e"," ","V","i","e","w">> =>
                    outcome.results[j].filename = stem \o <<"-","s","i","d","e">>

C4_Witness ==
    /\ PerAngle /\ outcome.state = "resolved"
    /\ input.targetAngles.list = <<AngleFront, AngleSide>>
    /\ completed = <<2, 1>>
    /\ outcome.results[2].filename = StemNike \o <<"-","s","i","d","e">>

\* C5: in a per-image or per-angle batch, once a unit's generation has
\* failed for good the request is rejected and carries no result, also when
\* other units of the batch completed.
C5_AllOrNothing ==
    ((PerImage \/ PerAngle) /\ AnyFailed(units)) =>
        /\ outcome.state = "rejected"
        /\ outcome.results = <<>>

C5_Witness ==
    /\ PerImage \/ PerAngle
    /\ AnyFailed(units)
    /\ \E k \in 1..Len(units) : units[k].pc = "done"
    /\ \A k \in 1..Len(units) : units[k].pc \in {"done", "failed"}
    /\ outcome.state = "rejected"

\* the request passed the checks of the dispatcher on its arguments
WellFormed == input.op = "process" /\ input.presetId # "UNKNOWN" /\ NumImages > 0

\* C6: no analysis ever rejects: an analysis whose wrapped call failed
\* (terminal error, retries exhausted, malformed or null JSON) yields the
\* empty description and the stem 'processed-product', no unit fails before
\* its generation, and a request resolves exactly when all its generation
\* units succeeded and rejects exactly when one of them failed.
C6_AnalysisNeverRejects ==
    /\ \A k \in 1..Len(units) :
          /\ units[k].pc = "failed" => units[k].req.kind # "none"
          /\ units[k].analyzed = "thrown" =>
                units[k].analysis = [description |-> "", filename |-> StemDefault]
    /\ (WellFormed /\ pc # "start") =>
          /\ outcome.state = "rejected" <=> AnyFailed(units)
          /\ outcome.state = "resolved" <=> (Dispatched /\ AllDone(units))

C6_Witness ==
    /\ PerImage /\ outcome.state = "resolved" /\ Len(units) = 2
    /\ units[1].analyzed = "thrown" /\ units[2].analyzed = "returned"
    /\ outcome.results[1].filename = StemDefault

\* errors raised by the dispatcher and the adapters before any remote call
PreconditionErrors == {ErrNoApiKey, ErrInvalidPreset, ErrUndefinedFile}

KnownStrategy == input.presetId \in {"GHOST_MANNEQUIN", "LIFESTYLE", "ANGLES", "BG_REMOVE_REPAIR"}

\* C7 as stated: without a credential upscaleImage, and processImagesWithGemini
\* under each of the four strategies, reject with a precondition error, and
\* no backoff wait and no remote call happen.
C7_Original ==
    (~input.apiKey /\ pc # "start" /\ (input.op = "upscale" \/ KnownStrategy)) =>
        /\ outcome.state = "rejected"
        /\ outcome.error \in PreconditionErrors
        /\ ~obs.remote /\ ~obs.waited

\* C7: without a credential no remote call and no backoff wait ever happen;
\* upscaleImage, and processImagesWithGemini with at least one source image
\* under each of the four strategies, reject with the missing-credential
\* error; with no source image the per-image strategy resolves to the empty
\* list and the other three strategies reject with the error of reading the
\* undefined primary image.
C7_NoCredential ==
    (~input.apiKey /\ pc # "start" /\ (input.op = "upscale" \/ KnownStrategy)) =>
        /\ ~obs.remote /\ ~obs.waited
        /\ \A k \in 1..Len(units) : units[k].pc = "failed"
        /\ IF input.op = "upscale" \/ NumImages >= 1
           THEN outcome = Rejected(ErrNoApiKey)
           ELSE IF PerImage
           THEN outcome = Resolved(<<>>)
           ELSE outcome = Rejected(ErrUndefinedFile)

C7_Witness ==
    /\ ~input.apiKey /\ PerAngle /\ NumImages = 2 /\ Len(units) = 3
    /\ outcome = Rejected(ErrNoApiKey) /\ ~obs.remote

EmptySelection == PerAngle /\ input.targetAngles.given /\ input.targetAngles.list = <<>>

\* C8 as stated: the per-angle strategy with an empty angle selection fails
\* with a precondition error raised before any remote call.
C8_Original ==
    (EmptySelection /\ pc # "start") =>
        /\ outcome.state = "rejected"
        /\ outcome.error \in PreconditionErrors
        /\ ~obs.remote

\* C8: the per-angle strategy with an empty angle selection raises no
\* precondition error for the selection: with a credential and a source
\* image it issues the primary analysis call and then three generation
\* units, and it is rejected only by the failure of one of these units.
C8_EmptySelectionRuns ==
    (EmptySelection /\ input.apiKey /\ NumImages >= 1 /\ pc # "start") =>
        /\ obs.remote
        /\ Dispatched => Len(units) = 3
        /\ outcome.state = "rejected" =>
              (AnyFailed(units) /\ outcome.error \notin PreconditionErrors)

C8_Witness ==
    /\ EmptySelection /\ input.apiKey /\ NumImages >= 1
    /\ outcome.state = "rejected" /\ AnyFailed(units) /\ Len(units) = 3

NoAngles == PerAngle /\ (~input.targetAngles.given \/ input.targetAngles.list = <<>>)

\* C9: the per-angle strategy called without angles (absent or empty list)
\* creates one unit for each of 'Front View', 'Side View' and
\* '3/4 Perspective View', and when they all succeed it resolves to three
\* results in that order.
C9_DefaultAngles ==
    LET triple == << <<"F","r","o","n","t"," ","V","i","e","w">>,
                     <<"S","i","d","e"," ","V","i","e","w">>,
                     <<"3","/","4"," ","P","e","r","s","p","e","c","t","i","v","e",
                       " ","V","i","e","w">> >>
    IN (NoAngles /\ NumImages >= 1 /\ Dispatched) =>
        /\ Len(units) = 3
        /\ \A j \in 1..3 : units[j].req.kind = "angle" /\ units[j].req.angle = triple[j]
        /\ AllDone(units) =>
              /\ outcome.state = "resolved"
              /\ Len(outcome.results) = 3
              /\ \A j \in 1..3 : outcome.results[j].url.of.angle = triple[j]

C9_Witness ==
    /\ PerAngle /\ ~input.targetAngles.given
    /\ outcome.state = "resolved" /\ Len(outcome.results) = 3
    /\ completed = <<3, 1, 2>>

\* C10: processImagesWithGemini called with a strategy id that is none of
\* the four presets is rejected with the invalid-preset error before any
\* remote call, any backoff wait and any status message.
C10_UnknownStrategy ==
    (input.op = "process" /\ ~KnownStrategy /\ pc # "start") =>
        /\ outcome = Rejected(ErrInvalidPreset)
        /\ units = <<>> /\ primary = NoCtl
        /\ ~obs.remote /\ ~obs.waited /\ ~obs.sink

C10_Witness ==
    /\ input.op = "process" /\ ~KnownStrategy
    /\ input.apiKey /\ input.hasSink /\ NumImages = 2
    /\ outcome = Rejected(ErrInvalidPreset)

\* the literals of the instruction texts the statements below speak of
StrictBodyHead == "\n\nCRITICAL REQUIREMENT: The target body type for this generation is strict: "
StrictBodyMid == ". \nIf the prompt implies a human figure, model, or mannequin, it MUST match the "
StrictBodyTail == " anatomy and proportions. Do not generate any other gender or age group."
FramingPreserve == "\n\nIMPORTANT - PRESERVE THESE DETECTED PRODUCT DETAILS:\n"
FramingCompositor == "\n\nSTRICT REQUIREMENT: The object in the input image is the SOURCE OF TRUTH. Do not regenerate the geometry, text, or logos. You are a compositor, not a designer. Maintain these exact details:\n"
EnvironmentHead == "\n\nENVIRONMENT SETTING: Place the product in an "
SceneHead == "\n\nSPECIFIC SCENE DETAILS: "

\* a candidate that carries text and no image data
TextOnly(resp) ==
    /\ resp.candidate
    /\ \A k \in 1..Len(resp.parts) : ~(resp.parts[k].inline /\ ~resp.parts[k].empty)
    /\ resp.text # <<>>

\* the first n characters of text t
Prefix(t, n) == [i \in 1..(IF Len(t) < n THEN Len(t) ELSE n) |-> t[i]]

\* C11: every answer of the generation service that carries only text,
\* whatever the text, makes the generation adapter fail at once: the call
\* settles as thrown by that attempt, without a further call, a backoff wait
\* or a status message, and the message of the error quotes the first (at
\* most 150) characters of the text.
C11_Original ==
    [][ (rc.pc = "call" /\ rc' # rc /\ gen'.answered /\ ~gen'.outcome.raised
           /\ TextOnly(gen'.outcome.response)) =>
          /\ rc'.pc = "thrown"
          /\ rc'.calls = rc.calls /\ rc'.waits = rc.waits /\ rc'.log = rc.log
          /\ Includes(rc'.err.message, Prefix(gen'.outcome.response.text, 150)) ]_vars

\* C12: the generation adapter turns every response into exactly one
\* outcome, by priority: without a candidate the error 'No candidates
\* returned from the model.'; else, when some part carries image data, the
\* data of the first such part, text parts or not; else, when the response
\* has text, the text-instead-of-image error; else 'No image generated.'.
C12_Classification ==
    (gen.answered /\ ~gen.outcome.raised) =>
        LET resp == gen.outcome.response
            r == gen.result
            imgs == {k \in 1..Len(resp.parts) :
                        resp.parts[k].inline /\ ~resp.parts[k].empty}
        IN IF ~resp.candidate
           THEN ~r.ok /\ r.err.message = MsgNoCandidates
           ELSE IF imgs # {}
           THEN /\ r.ok /\ r.err = NoError
                /\ \E k \in imgs : /\ \A j \in imgs : k <= j
                                   /\ r.value.url = resp.parts[k].data
           ELSE IF resp.text # <<>>
           THEN /\ ~r.ok
                /\ SubSeq(r.err.message, 1, Len(MsgTextPrefix)) = MsgTextPrefix
           ELSE ~r.ok /\ r.err.message = MsgNoImage

C12_Witness ==
    /\ gen.answered /\ ~gen.outcome.raised
    /\ Len(gen.outcome.response.parts) = 2
    /\ ~gen.outcome.response.parts[1].inline
    /\ gen.outcome.response.parts[2].inline /\ ~gen.outcome.response.parts[2].empty
    /\ gen.result.ok /\ rc.pc = "returned"

\* what a run of runWithRetry does: its calls, waits and settlement
Control(c) ==
    [pc |-> c.pc, attempt |-> c.attempt, calls |-> c.calls, waits |-> c.waits,
     wait |-> c.wait, err |-> c.err, value |-> c.value]

\* C16: the status sink never affects control flow: a call made with a
\* status sink and the same call made without one, given the same answers
\* of the service, make the same remote calls and backoff waits and settle
\* with the same result or error.
C16_SinkNoEffect ==
    (pc = "called" /\ input.apiKey) =>
        /\ rc.sink # twin.sink
        /\ Control(rc) = Control(twin)
        /\ GenPromise(rc) = GenPromise(twin)
        /\ outcome = GenPromise(rc)

C16_Witness ==
    /\ pc = "called" /\ input.apiKey /\ rc.sink /\ ~twin.sink
    /\ rc.pc = "thrown" /\ rc.waits = 2 /\ twin.waits = 2
    /\ Len(rc.log) = 4 /\ twin.log = <<>>

Composite == input.op = "process" /\ input.presetId \in {"LIFESTYLE", "BG_REMOVE_REPAIR"}

\* C13: every generation unit of a per-image or per-angle batch is issued
\* with the aspect ratio '3:4', whatever target aspect ratio was passed; the
\* single unit of a composite strategy is issued with the target aspect
\* ratio that was passed.
C13_AspectRatio ==
    Dispatched =>
        /\ (PerImage \/ PerAngle) =>
              \A k \in 1..Len(units) : units[k].req.aspectRatio = "3:4"
        /\ Composite =>
              /\ Len(units) = 1
              /\ units[1].req.aspectRatio = input.targetAspectRatio

C13_Witness ==
    /\ Dispatched /\ input.presetId = "LIFESTYLE"
    /\ input.targetAspectRatio = "16:9" /\ units[1].req.aspectRatio = "16:9"

\* what the ratio family and the orientation flag of the app resolve to
ResolvedRatio(family, portrait) ==
    IF family = "4:3" THEN (IF portrait THEN "3:4" ELSE "4:3")
    ELSE IF family = "16:9" THEN (IF portrait THEN "9:16" ELSE "16:9")
    ELSE "1:1"

ByApp == app.mounted /\ Dispatched

\* C14 as stated: for both composite strategies the aspect ratio handed to
\* the generation adapter is the one resolved from the ratio family and the
\* orientation flag chosen in the app.
C14_Original ==
    (ByApp /\ Composite /\ app.lifestyleRatio \in {"4:3", "16:9", "1:1"}) =>
        units[1].req.aspectRatio = ResolvedRatio(app.lifestyleRatio, app.isPortrait)

\* C14: for the LIFESTYLE strategy the aspect ratio handed to the generation
\* adapter is the one resolved from the ratio family and the orientation
\* flag ('4:3' portrait '3:4', landscape '4:3'; '16:9' portrait '9:16',
\* landscape '16:9'; '1:1' always '1:1'); for BG_REMOVE_REPAIR it is '1:1'
\* whatever family and orientation are chosen.
C14_LifestyleRatio ==
    (ByApp /\ Composite) =>
        IF app.selectedPreset = "LIFESTYLE"
        THEN /\ app.lifestyleRatio \in {"4:3", "16:9", "1:1"} =>
                   units[1].req.aspectRatio
                      = ResolvedRatio(app.lifestyleRatio, app.isPortrait)
             /\ (app.lifestyleRatio = "4:3" /\ app.isPortrait) =>
                   units[1].req.aspectRatio = "3:4"
             /\ (app.lifestyleRatio = "16:9" /\ ~app.isPortrait) =>
                   units[1].req.aspectRatio = "16:9"
        ELSE units[1].req.aspectRatio = "1:1"

C14_Witness ==
    /\ ByApp /\ app.selectedPreset = "LIFESTYLE"
    /\ app.lifestyleRatio = "16:9" /\ app.isPortrait
    /\ units[1].req.aspectRatio = "9:16"

\* the instruction text of a request: the text of its last part
TaskText(req) == req.parts[Len(req.parts)].text

\* the descriptions of the analysis that occur in the instruction of a request
DescriptionsIn(req) ==
    {TaskText(req)[i].s : i \in {j \in 1..Len(TaskText(req)) :
                                    TaskText(req)[j].o = "analysis"}}

\* the units that have composed their generation request
Composed == {k \in 1..Len(units) : units[k].req.kind # "none"}

\* the id of the primary image: the first one labelled 'Front View', else the first
PrimaryId ==
    LET front == {k \in 1..NumImages : input.sourceImages[k].label = "Front View"}
    IN IF front = {} THEN input.sourceImages[1].id
       ELSE input.sourceImages[CHOOSE k \in front : \A j \in front : k <= j].id

\* C15 as stated: all generation units created by one call of
\* processImagesWithGemini carry the same description in their instruction.
C15_Original ==
    (input.op = "process" /\ Dispatched) =>
        \A j, k \in Composed :
            DescriptionsIn(units[j].req) = DescriptionsIn(units[k].req)

\* C15: under the per-angle and the composite strategies all generation
\* units of one call carry the same description, the one the analysis of
\* the primary image settled to; under the per-image strategy every unit
\* carries the description the analysis of its own source image settled to.
C15_SharedDescription ==
    (input.op = "process" /\ Dispatched) =>
        /\ \A k \in Composed :
              /\ DescriptionsIn(units[k].req) = {units[k].analysis.description}
              /\ units[k].analyzed = "thrown" => units[k].analysis.description = ""
        /\ (PerAngle \/ Composite) =>
              \A j, k \in Composed :
                  /\ DescriptionsIn(units[j].req) = DescriptionsIn(units[k].req)
                  /\ units[k].req.analyzed = PrimaryId
        /\ PerImage =>
              \A k \in Composed : units[k].req.analyzed = input.sourceImages[k].id

C15_Witness ==
    /\ PerAngle /\ Dispatched /\ NumImages = 2 /\ Len(units) = 3
    /\ \A k \in 1..3 : DescriptionsIn(units[k].req) = {"D1"}

RefFramings ==
    {"INPUT 1: STYLE REFERENCE IMAGE. Use the lighting, background style, and mood from this image. DO NOT use the object in this image.",
     "========================================\nPART 1: STYLE REFERENCE\nUse the following image ONLY for background style, lighting, and color grading. DO NOT generate the object found in this image.\n========================================"}

\* the positions of the parts of a request that are the style reference
\* image, its framing text, and a product image
RefImageAt(req) == {i \in 1..Len(req.parts) : req.parts[i].inlineData.role = "reference"}
RefTextAt(req) ==
    {i \in 1..Len(req.parts) :
        \E t \in 1..Len(req.parts[i].text) : req.parts[i].text[t].s \in RefFramings}
ProductAt(req) == {i \in 1..Len(req.parts) : req.parts[i].inlineData.role = "source"}

\* C17: under BG_REMOVE_REPAIR no generation request contains the style
\* reference image or its framing text, supplied or not; under the other
\* three strategies a supplied reference image is in the parts of every
\* generation unit, once, after its framing text and before every product
\* image.
C17_Reference ==
    (input.op = "process" /\ Dispatched) =>
        \A k \in 1..Len(units) :
            IF input.presetId = "BG_REMOVE_REPAIR" \/ ~input.referenceImage
            THEN RefImageAt(units[k].req) = {} /\ RefTextAt(units[k].req) = {}
            ELSE /\ Cardinality(RefImageAt(units[k].req)) = 1
                 /\ Cardinality(RefTextAt(units[k].req)) = 1
                 /\ ProductAt(units[k].req) # {}
                 /\ \A r \in RefImageAt(units[k].req) :
                       /\ \A t \in RefTextAt(units[k].req) : t < r
                       /\ \A q \in ProductAt(units[k].req) : r < q

C17_Witness ==
    /\ Dispatched /\ input.presetId = "BG_REMOVE_REPAIR" /\ input.referenceImage
    /\ NumImages = 2 /\ Cardinality(ProductAt(units[1].req)) = 2

\* positions of a literal of the code, and of the template, in a text
At(text, literal) ==
    {i \in 1..Len(text) : text[i].o = "system" /\ text[i].s = literal}
TemplateAt(text) == {i \in 1..Len(text) : text[i].o = "template"}
BodyClauseAt(text) == At(text, StrictBodyHead)
FramingAt(text) == At(text, FramingPreserve) \cup At(text, FramingCompositor)
Before(A, B) == \A i \in A, j \in B : i < j

\* C18: in the instruction of every generation unit of every strategy the
\* strict body-type clause and the framing of the analysis come after the
\* whole template text, whatever the template is; the framing is always
\* there.
C18_ClausesAfterTemplate ==
    (input.op = "process" /\ Dispatched) =>
        \A k \in 1..Len(units) :
            LET text == TaskText(units[k].req) IN
            /\ Before(TemplateAt(text), BodyClauseAt(text))
            /\ Before(TemplateAt(text), FramingAt(text))
            /\ Cardinality(FramingAt(text)) = 1
            /\ Len(SelectSeq(input.customPrompt,
                             LAMBDA t : t.s \notin {"<BodyType>", "{{ANGLE}}",
                                                    "{{PROMPT}}", " ", "\n"}))
                 <= Cardinality(TemplateAt(text))

C18_Witness ==
    /\ Dispatched /\ PerImage
    /\ Len(input.customPrompt) = 5 /\ input.customPrompt[3].s = "<BodyType>"
    /\ Cardinality(TemplateAt(TaskText(units[1].req))) = 4
    /\ Cardinality(BodyClauseAt(TaskText(units[1].req))) = 1

\* the strict body-type clause for the body type b
BodyClause(b) ==
    <<[o |-> "system", s |-> StrictBodyHead]>>
    \o [i \in 1..Len(b) |-> [o |-> "arg", s |-> ToUpperCase(b)[i]]]
    \o <<[o |-> "system", s |-> StrictBodyMid]>>
    \o [i \in 1..Len(b) |-> [o |-> "arg", s |-> b[i]]]
    \o <<[o |-> "system", s |-> StrictBodyTail]>>

ChosenBodyType == IF input.bodyType = <<>> THEN <<"M","e","n">> ELSE input.bodyType

HasBodyClause(text, b) ==
    \E i \in 1..(Len(text) - Len(BodyClause(b)) + 1) :
        SubSeq(text, i, i + Len(BodyClause(b)) - 1) = BodyClause(b)

\* C19 as stated: under each of the four strategies the instruction of every
\* generation unit contains the strict body-type clause naming the chosen
\* body type ('Men' when none is given).
C19_Original ==
    (input.op = "process" /\ Dispatched) =>
        \A k \in 1..Len(units) : HasBodyClause(TaskText(units[k].req), ChosenBodyType)

\* C19: under GHOST_MANNEQUIN, ANGLES and LIFESTYLE the instruction of every
\* generation unit contains, once, the strict body-type clause naming the
\* chosen body type ('Men' when none is given); under BG_REMOVE_REPAIR the
\* instruction contains no body-type clause.
C19_BodyClause ==
    (input.op = "process" /\ Dispatched) =>
        \A k \in 1..Len(units) :
            IF input.presetId = "BG_REMOVE_REPAIR"
            THEN BodyClauseAt(TaskText(units[k].req)) = {}
            ELSE /\ HasBodyClause(TaskText(units[k].req), ChosenBodyType)
                 /\ Cardinality(BodyClauseAt(TaskText(units[k].req))) = 1

C19_Witness ==
    /\ Dispatched /\ input.presetId = "LIFESTYLE" /\ input.bodyType = <<>>
    /\ HasBodyClause(TaskText(units[1].req), <<"M","e","n">>)

EnvironmentAt(text) == At(text, EnvironmentHead)
SceneAt(text) == At(text, SceneHead)

\* C20 as stated: the appended segments come in the order body-type clause,
\* then (composite strategies only) environment and scene addenda when
\* supplied, then the framing of the analysis.
C20_Original ==
    (input.op = "process" /\ Dispatched) =>
        \A k \in 1..Len(units) :
            LET text == TaskText(units[k].req) IN
            /\ Before(BodyClauseAt(text), EnvironmentAt(text))
            /\ Before(BodyClauseAt(text), SceneAt(text))
            /\ Before(EnvironmentAt(text), SceneAt(text))
            /\ Before(EnvironmentAt(text) \cup SceneAt(text), FramingAt(text))
            /\ Before(BodyClauseAt(text), FramingAt(text))

\* C20: the appended segments come in the order: (composite strategies
\* only) the environment addendum and then the scene addendum, each exactly
\* when supplied, then the body-type clause (which BG_REMOVE_REPAIR does not
\* append), then the framing of the analysis, which the description ends.
C20_SegmentOrder ==
    (input.op = "process" /\ Dispatched) =>
        \A k \in 1..Len(units) :
            LET text == TaskText(units[k].req) IN
            /\ Cardinality(EnvironmentAt(text))
                 = (IF Composite /\ input.environment # "" THEN 1 ELSE 0)
            /\ Cardinality(SceneAt(text))
                 = (IF Composite /\ input.additionalContext # "" THEN 1 ELSE 0)
            /\ Before(EnvironmentAt(text), SceneAt(text))
            /\ Before(EnvironmentAt(text) \cup SceneAt(text), BodyClauseAt(text))
            /\ Before(EnvironmentAt(text) \cup SceneAt(text), FramingAt(text))
            /\ Before(BodyClauseAt(text), FramingAt(text))
            /\ FramingAt(text) = {Len(text) - 1}
            /\ text[Len(text)].o = "analysis"

C20_Witness ==
    /\ Dispatched /\ input.presetId = "LIFESTYLE"
    /\ input.environment = "Indoor" /\ input.additionalContext = "at dusk"
    /\ Cardinality(EnvironmentAt(TaskText(units[1].req))) = 1
    /\ Cardinality(SceneAt(TaskText(units[1].req))) = 1
    /\ Cardinality(BodyClauseAt(TaskText(units[1].req))) = 1

\* the step the callback of unit k is waiting for
UnitStep(k) == UnitAnalysisSettles(k) \/ UnitGenerationSettles(k) \/ UnitDelayElapsed(k)

\* unit k has not settled: its callback awaits a remote call or a backoff
Active(k) == k \in 1..Len(units) /\ units[k].pc \in {"analyze", "generate"}

\* C21: once a batch is dispatched no unit is cancelled: after the request
\* has been rejected every unit that has not settled still has its remote
\* call in flight or its backoff running, its next step can be taken, and
\* (every remote call returning, every backoff elapsing) it goes on until it
\* has succeeded or failed.
C21_NoCancellation ==
    /\ [](\A k \in 1..Len(units) :
             (outcome.state = "rejected" /\ Active(k)) =>
                 /\ pc = "dispatched"
                 /\ units[k].ctl.pc \in {"call", "wait"}
                 /\ ENABLED UnitStep(k))
    /\ (outcome.state = "rejected")
          ~> (\A k \in 1..Len(units) : units[k].pc \in {"done", "failed"})

\* a sibling of the failed unit issued a call or started a wait after the
\* rejection and has completed
C21_Witness ==
    /\ outcome.state = "rejected" /\ obs.late
    /\ \E k \in 1..Len(units) : units[k].pc = "done"
    /\ \A k \in 1..Len(units) : ~Active(k)

\* the retry controllers of the request that have not settled
LiveControllers ==
    {units[k].ctl : k \in {j \in 1..Len(units) : units[j].ctl.pc \in {"call", "wait"}}}
    \cup (IF primary.pc \in {"call", "wait"} THEN {primary} ELSE {})

\* C25: if every remote call eventually returns, every call of
\* processImagesWithGemini and of upscaleImage eventually settles (resolves
\* or rejects), each wrapped remote call being attempted at most
\* retries + 1 times.
C25_Settles ==
    /\ <>(outcome.state # "pending")
    /\ [](\A c \in LiveControllers : c.calls <= c.retries + 1 /\ c.attempt <= c.retries)

\* a batch settles after a backoff
C25_Witness ==
    /\ outcome.state = "resolved" /\ obs.waited /\ Len(units) > 1
    /\ \A k \in 1..Len(units) : units[k].pc = "done"

\* an error of the authentication class: HTTP 403, or the provider's
\* 'Requested entity was not found'
IsAuthFailure(e) ==
    \/ e.status = 403
    \/ e.hasMessage /\ Includes(e.message, <<"4","0","3">>)
    \/ e.hasMessage /\ Includes(e.message, <<"R","e","q","u","e","s","t","e","d"," ","e","n","t","i","t","y"," ","w","a","s"," ","n","o","t"," ","f","o","u","n","d">>)

\* C22 as stated: a remote call that fails with an error of the
\* authentication class is never retried, whatever else its message
\* contains: the error propagates after that attempt, no backoff wait is
\* started and the operation is not called again.
C22_Original ==
    [][(rc.pc = "call" /\ rc'.pc # "returned" /\ rc' # rc /\ IsAuthFailure(rc'.err)) =>
          /\ rc'.pc = "thrown"
          /\ rc'.waits = rc.waits /\ rc'.calls = rc.calls /\ rc'.log = rc.log]_vars


(***************************************************************************)
(* upscaleImage.                                                           *)
(***************************************************************************)
IsImagePart(p) == p.text = <<>> /\ p.inlineData.role # "none"
IsTextPart(p) == p.text # <<>> /\ p.inlineData.role = "none"

\* C23: upscaleImage issues exactly one generation unit and never an
\* analysis call: no primary analysis is started, the only unit is a
\* generation unit that no analysis preceded, its part list is the image
\* followed by one instruction text, its image size is the requested
\* resolution tier, and the remote call is repeated only by the retry
\* controller (one call more than the waits it started, at most
\* DefaultRetries + 1 calls).
C23_UpscaleOneUnit ==
    (input.op = "upscale" /\ pc = "dispatched") =>
        /\ primary = NoCtl
        /\ Len(units) = 1
        /\ units[1].pc \in {"generate", "done", "failed"}
        /\ units[1].analyzed = "none"
        /\ units[1].req.kind = "upscale"
        /\ Len(units[1].req.parts) = 2
        /\ IsImagePart(units[1].req.parts[1])
        /\ units[1].req.parts[1].inlineData.role = "result"
        /\ IsTextPart(units[1].req.parts[2])
        /\ units[1].req.imageSize = input.resolution
        /\ input.resolution \in {"2K", "4K"}
        /\ units[1].ctl.pc \in {"call", "wait"} =>
              /\ units[1].ctl.retries = DefaultRetries
              /\ units[1].ctl.calls =
                    units[1].ctl.waits + (IF units[1].ctl.pc = "call" THEN 1 ELSE 0)
              /\ units[1].ctl.calls <= DefaultRetries + 1

C23_Witness ==
    /\ input.op = "upscale" /\ input.resolution = "4K"
    /\ outcome.state = "resolved" /\ Len(outcome.results) = 1
    /\ obs.waited


(***************************************************************************)
(* The composite strategies.                                               *)
(***************************************************************************)
\* the stems analyzeProductFeatures can hand out
Stems == {StemNike, StemDefault, AnalysisWithoutKey.filename}

\* C24: a composite strategy (LIFESTYLE, BG_REMOVE_REPAIR) with at least one
\* source image never has more than one generation unit, whatever the
\* number of source images; once the request is dispatched and not rejected
\* there is exactly one, built from all the source images; and a resolved
\* request carries exactly one result whose filename is the stem of the
\* analysis, nothing appended.
C24_CompositeOneUnit ==
    (Composite /\ NumImages >= 1) =>
        /\ Len(units) <= 1
        /\ (Dispatched /\ outcome.state # "rejected") =>
              /\ Len(units) = 1
              /\ units[1].req.kind = "single"
              /\ units[1].req.source = [k \in 1..NumImages |-> input.sourceImages[k].id]
        /\ outcome.state = "resolved" =>
              /\ Len(outcome.results) = 1
              /\ outcome.results[1].filename = units[1].analysis.filename
              /\ outcome.results[1].filename \in Stems
              /\ outcome.results[1].url # NoValue

C24_Witness ==
    /\ Composite /\ NumImages = MaxImages
    /\ outcome.state = "resolved" /\ Len(outcome.results) = 1
    /\ outcome.results[1].filename = StemNike


(***************************************************************************)
(* Composition as a function of its arguments.                             *)
(***************************************************************************)
\* the request of unit k composed again, now, from the arguments of the call
\* and the description the unit was given
Recomposed(k) ==
    IF PerImage THEN ImageRequest(input.sourceImages[k], units[k].analysis)
    ELSE IF PerAngle
    THEN AngleRequest(input.sourceImages, units[k].req.angle, units[k].analysis)
    ELSE SingleRequest(input.sourceImages, units[k].analysis)

Alternating(k, retries) ==
    [n \in 1..(2 * k) |->
        IF n % 2 = 1 THEN RetryingMsg((n + 1) \div 2, retries) ELSE ResumingMsg]

\* C27: when the operation failed transiently k times and then succeeded,
\* runWithRetry returns the value of the successful call after k + 1 calls
\* and k waits, every wait of the fixed 10 s, and a status sink has received
\* exactly the 2k messages 'retrying i/retries', 'resuming' for i = 1..k in
\* this order; while wait k is running the last message is 'retrying k'
\* (emitted before the wait), and the 'resuming' message follows the wait,
\* before the next call.
C27_RetryThenSuccess ==
    /\ rc.pc = "returned" =>
          /\ rc.value = [data |-> "ok"]
          /\ rc.waits <= rc.retries
          /\ rc.calls = rc.waits + 1
          /\ rc.sink => rc.log = Alternating(rc.waits, rc.retries)
          /\ ~rc.sink => rc.log = <<>>
    /\ rc.pc = "wait" =>
          /\ rc.wait = WaitTime /\ WaitTime = 10000
          /\ rc.calls = rc.waits
          /\ rc.sink => rc.log = SubSeq(Alternating(rc.waits, rc.retries), 1,
                                        2 * rc.waits - 1)
    /\ rc.pc = "call" =>
          /\ rc.wait = 0
          /\ rc.calls = rc.waits + 1
          /\ rc.sink => rc.log = Alternating(rc.waits, rc.retries)

C27_Witness ==
    /\ rc.pc = "returned" /\ rc.sink
    /\ rc.retries = MaxRetriesArg /\ rc.waits = MaxRetriesArg
    /\ Len(rc.log) = 2 * MaxRetriesArg


(***************************************************************************)
(* The analysis of the primary image.                                      *)
(***************************************************************************)
\* analyzeProductFeatures has been entered for the primary image and has
\* settled: with its value, degraded, or at once for want of a credential
PrimaryAnalysisSettled ==
    \/ primary.pc \in {"returned", "thrown"}
    \/ /\ ~input.apiKey /\ primary = NoCtl /\ units # <<>>
       /\ \A k \in 1..Len(units) : units[k].analyzed = "skipped"

\* C28 as stated: under the per-angle and composite strategies the analysis
\* is run for exactly one image of every request, the primary image, and it
\* has settled before any generation unit exists.
C28_Original ==
    ((PerAngle \/ Composite) /\ pc # "start") =>
        /\ Dispatched => PrimaryAnalysisSettled
        /\ units # <<>> => PrimaryAnalysisSettled
        /\ \A k \in Composed : units[k].req.analyzed = PrimaryId

\* C28: under the per-angle and composite strategies with at least one
\* source image and a credential, one analysis is run, for the primary image
\* (the first one labelled 'Front View', else the first); no unit runs an
\* analysis of its own, and generation units exist only once that analysis
\* has returned or degraded.  Without a credential no analysis call is made
\* and the units are composed from the empty description at once.  With no
\* source image the request is rejected before any analysis or generation.
C28_PrimaryAnalysis ==
    (PerAngle \/ Composite) =>
        /\ \A k \in 1..Len(units) :
              /\ units[k].pc # "analyze"
              /\ units[k].analyzed \in {"returned", "thrown", "skipped"}
              /\ units[k].req.kind # "none"
              /\ units[k].req.analyzed = PrimaryId
        /\ primary.pc \in {"call", "wait"} =>
              /\ pc = "primary" /\ units = <<>> /\ outcome.state = "pending"
              /\ input.apiKey /\ NumImages >= 1
        /\ units # <<>> =>
              /\ NumImages >= 1 /\ PrimaryAnalysisSettled
              /\ input.apiKey =>
                    \A k \in 1..Len(units) : units[k].analyzed = primary.pc
              /\ ~input.apiKey =>
                    /\ ~obs.remote
                    /\ \A k \in 1..Len(units) : units[k].analysis = AnalysisWithoutKey
        /\ (NumImages = 0 /\ pc # "start") =>
              /\ primary = NoCtl /\ units = <<>> /\ ~obs.remote
              /\ outcome = Rejected(ErrUndefinedFile)

C28_Witness ==
    /\ PerAngle /\ NumImages = 2 /\ input.apiKey
    /\ primary.pc = "returned" /\ obs.waited
    /\ Len(units) > 1 /\ units[1].req.analyzed = 2
    /\ units[1].pc = "done" /\ units[2].pc = "generate"


(***************************************************************************)
(* The per-image strategy, call by call.                                   *)
(***************************************************************************)
\* With no backoff wait so far every activation of runWithRetry has made one
\* remote call: the units whose analysis call, and those whose generation
\* call, has been issued.
AnalysisIssued ==
    {k \in 1..Len(units) : units[k].pc = "analyze"
                              \/ units[k].analyzed \in {"returned", "thrown"}}
\* (callGeminiGenerator throws before any call when the credential is missing)
GenerationIssued ==
    {k \in 1..Len(units) : units[k].req.kind # "none" /\ input.apiKey}

\* the source images among the parts of a request
ProductIds(req) == {req.parts[i].inlineData.id : i \in ProductAt(req)}

AllSettled == \A k \in 1..Len(units) : units[k].pc \in {"done", "failed"}

\* C29 as stated: a per-image request of N source images that met no
\* transient failure has issued exactly N analysis calls and N generation
\* calls when all its units have settled.
C29_Original ==
    (PerImage /\ Dispatched /\ ~obs.waited /\ AllSettled) =>
        /\ Cardinality(AnalysisIssued) = NumImages
        /\ Cardinality(GenerationIssued) = NumImages

\* C29: a per-image request of N source images with a credential that met
\* no transient failure has one unit per image; every unit makes one
\* analysis call and then, once that has returned or degraded, one
\* generation call (N of each when all units have settled); the request of
\* unit i is grounded with the description of its own analysis and holds
\* source image i as its only product image.  Without a credential no call
\* is issued at all.
C29_PerImageCalls ==
    (PerImage /\ Dispatched /\ ~obs.waited) =>
        /\ Len(units) = NumImages
        /\ GenerationIssued \subseteq AnalysisIssued
        /\ input.apiKey =>
              /\ Cardinality(AnalysisIssued) = NumImages
              /\ \A k \in 1..Len(units) :
                    /\ units[k].ctl.pc = "call" =>
                          units[k].ctl.calls = 1 /\ units[k].ctl.waits = 0
                    /\ units[k].pc = "analyze" =>
                          units[k].req.kind = "none" /\ k \notin GenerationIssued
                    /\ units[k].pc # "analyze" =>
                          /\ units[k].analyzed \in {"returned", "thrown"}
                          /\ k \in GenerationIssued
              /\ AllSettled => Cardinality(GenerationIssued) = NumImages
        /\ ~input.apiKey =>
              /\ ~obs.remote
              /\ AnalysisIssued = {} /\ GenerationIssued = {}
        /\ \A k \in Composed :
              /\ units[k].req.kind = "image"
              /\ units[k].req.analyzed = input.sourceImages[k].id
              /\ DescriptionsIn(units[k].req) = {units[k].analysis.description}
              /\ ProductIds(units[k].req) = {input.sourceImages[k].id}
              /\ Cardinality(ProductAt(units[k].req)) = 1

C29_Witness ==
    /\ PerImage /\ input.apiKey /\ ~obs.waited /\ NumImages = MaxImages
    /\ AllSettled /\ outcome.state = "resolved"
    /\ DescriptionsIn(units[1].req) = {"D1"} /\ DescriptionsIn(units[2].req) = {"D2"}
    /\ ProductIds(units[2].req) = {2}


(***************************************************************************)
(* The shared context block of the per-angle strategy.                     *)
(***************************************************************************)
\* the length of the style-reference prefix of the block
RefLen == IF input.referenceImage THEN 2 ELSE 0

\* the parts of a request before its last one
BlockOf(req) == SubSeq(req.parts, 1, Len(req.parts) - 1)

\* the parts of a request that are task texts
TasksAt(req) ==
    {i \in 1..Len(req.parts) :
        /\ IsTextPart(req.parts[i])
        /\ req.parts[i].text[1] = [o |-> "system", s |-> "TASK: "]}

\* C30: under the per-angle strategy every angle unit is issued with the
\* context block (the style reference with its framing if one was supplied,
\* the heading, then every source image in source order, each preceded by
\* the text of its viewpoint label) followed by exactly one task text, its
\* own; the block is the same in every unit, and no request changes once
\* it is dispatched.
C30_SharedBlock ==
    /\ [](PerAngle =>
            \A k \in 1..Len(units) :
                LET parts == units[k].req.parts IN
                /\ Len(parts) = RefLen + 1 + 2 * NumImages + 1
                /\ input.referenceImage =>
                      /\ IsTextPart(parts[1]) /\ parts[1].text[1].s \in RefFramings
                      /\ parts[2] = InlinePart([role |-> "reference", id |-> 0])
                /\ IsTextPart(parts[RefLen + 1])
                /\ \A i \in 1..NumImages :
                      /\ parts[RefLen + 2 * i].text
                            = <<[o |-> "system", s |-> "Viewpoint: "],
                                [o |-> "arg", s |-> input.sourceImages[i].label]>>
                      /\ parts[RefLen + 2 * i + 1]
                            = InlinePart([role |-> "source",
                                          id |-> input.sourceImages[i].id])
                /\ TasksAt(units[k].req) = {Len(parts)}
                /\ parts[Len(parts)].text
                      = Sys("TASK: ") \o AnglePromptWithAnalysis(input.customPrompt,
                           input.bodyType, units[k].req.angle, units[k].analysis.description)
                /\ \A j \in 1..Len(units) :
                      BlockOf(units[j].req) = BlockOf(units[k].req))
    /\ [][(PerAngle /\ units # <<>>) =>
             /\ Len(units') = Len(units)
             /\ \A k \in 1..Len(units) : units'[k].req = units[k].req]_vars

C30_Witness ==
    /\ PerAngle /\ input.referenceImage /\ NumImages = 2
    /\ Len(units) = 2 /\ units[1].pc = "done" /\ units[2].pc = "generate"
    /\ Len(units[2].req.parts) = 8
    /\ ProductIds(units[2].req) = {1, 2}


(***************************************************************************)
(* The stems of the filenames.                                             *)
(***************************************************************************)
\* the analysis of unit k degraded: it failed, or its answer had no filename
\* (in the model only the answer described by "D1" carries one)
Degraded(k) ==
    units[k].analyzed = "thrown" \/ units[k].analysis.description # "D1"

\* what is appended to the stem in the filename of unit k
SuffixOf(k) ==
    IF PerAngle THEN <<"-">> \o AngleSuffix(units[k].req.angle) ELSE <<>>

\* C31: in every result list processImagesWithGemini resolves to, a result
\* whose analysis degraded is named 'processed-product' (plus the angle
\* suffix under the per-angle strategy), every result is named by that stem
\* or by the stem the analysis answered, and the stem 'product' of the
\* missing credential appears in no result.
C31_GenericStem ==
    (input.op = "process" /\ outcome.state = "resolved") =>
        \A k \in 1..Len(outcome.results) :
            /\ Degraded(k) => outcome.results[k].filename = StemDefault \o SuffixOf(k)
            /\ outcome.results[k].filename
                  \in {StemDefault \o SuffixOf(k), StemNike \o SuffixOf(k)}
            /\ Prefix(outcome.results[k].filename, 7) # <<"p","r","o","d","u","c","t">>
            /\ units[k].analyzed # "skipped"

C31_Witness ==
    /\ PerAngle /\ outcome.state = "resolved" /\ Len(outcome.results) = 2
    /\ units[1].analyzed = "thrown"
    /\ outcome.results[1].filename = StemDefault \o <<"-","f","r","o","n","t">>


(***************************************************************************)
(* Independence of the units of a batch.                                   *)
(***************************************************************************)
\* C32: within a batch no unit blocks another: whatever the other units are
\* doing (awaiting a remote call, in a backoff wait, settled), a unit that
\* has not settled has its call in flight or its backoff running and its
\* next step can be taken; a step of one unit changes no other unit; and
\* only the result of the batch waits for all: it is resolved only when
\* every unit is done.
C32_NoBlocking ==
    /\ [](\A k \in 1..Len(units) :
             Active(k) =>
                 /\ units[k].ctl.pc \in {"call", "wait"}
                 /\ ENABLED UnitStep(k))
    /\ []((outcome.state = "resolved" /\ units # <<>>) => AllDone(units))
    /\ [][\A k \in 1..Len(units) :
             UnitStep(k) => \A j \in 1..Len(units) : j # k => units'[j] = units[j]]_vars

\* a unit has completed while another unit of the batch is in its backoff wait
C32_Witness ==
    /\ Len(units) = 2 /\ outcome.state = "pending"
    /\ units[1].pc = "generate" /\ units[1].ctl.pc = "wait"
    /\ units[2].pc = "done"


(***************************************************************************)
(* Placeholders left in the instruction.                                   *)
(***************************************************************************)
\* the recognized placeholders of the strategy of the request
Recognized ==
    {"<BodyType>"}
    \cup (IF PerAngle THEN {"{{ANGLE}}"} ELSE {})
    \cup (IF Composite THEN {"{{PROMPT}}"} ELSE {})

\* C33 as stated: whatever the template, the instruction of every generation
\* unit contains no recognized placeholder: no '<BodyType>', under the
\* per-angle strategy no '{{ANGLE}}', under the composite strategies no
\* '{{PROMPT}}'.
C33_Original ==
    (input.op = "process" /\ Dispatched) =>
        \A k \in Composed : \A ph \in Recognized :
            ~TextIncludes(TaskText(units[k].req), ph)

(***************************************************************************)
(* The retry budget of each wrapped call.                                  *)
(***************************************************************************)
\* C34: every analysis call and every generation call runs in its own
\* activation of runWithRetry: a call that starts, starts with attempt 0
\* and the full budget of DefaultRetries, whatever the analysis of the same
\* unit or another unit went through; a step changes the counters of one
\* unit only; every activation makes at most DefaultRetries backoff waits;
\* so that a unit whose analysis used all its waits still has all the waits
\* of its generation, 2 * DefaultRetries in all.
C34_IndependentBudgets ==
    /\ [](\A c \in LiveControllers :
             /\ c.retries = DefaultRetries
             /\ c.waits = c.attempt /\ c.attempt <= c.retries
             /\ c.calls = c.waits + (IF c.pc = "call" THEN 1 ELSE 0))
    /\ [][/\ \A k \in 1..Len(units') :
                (/\ units'[k].pc \in {"analyze", "generate"}
                 /\ k <= Len(units) => units[k].pc # units'[k].pc)
                    => units'[k].ctl = NewCall(input.hasSink, DefaultRetries)
          /\ (primary.pc = "idle" /\ primary'.pc # "idle")
                => primary' = NewCall(input.hasSink, DefaultRetries)
          /\ \A j, k \in 1..Len(units) :
                (j # k /\ units'[k].ctl # units[k].ctl) => units'[j].ctl = units[j].ctl
         ]_vars

\* the analysis of a unit went through all its waits and its generation is
\* in the last of its own
C34_Witness ==
    \E k \in 1..Len(units) :
        /\ units[k].spent /\ units[k].pc = "generate"
        /\ units[k].ctl.pc = "wait" /\ units[k].ctl.waits = DefaultRetries
        /\ 2 * DefaultRetries = 20

(***************************************************************************)
(* The status sink after the request has settled.                          *)
(***************************************************************************)
\* the messages runWithRetry has passed to the status sink for unit k
SinkLog(u) == IF u.ctl.pc \in {"call", "wait"} THEN u.ctl.log ELSE <<>>

\* C35 as stated: once a call of processImagesWithGemini has settled
\* (resolved or rejected), no step passes a message to its status sink.
C35_Original ==
    [][(input.op = "process" /\ input.hasSink /\ outcome.state # "pending") =>
          \A k \in 1..Len(units) :
              (units[k].ctl.pc \in {"call", "wait"} /\ units'[k].ctl.pc \in {"call", "wait"})
                  => SinkLog(units'[k]) = SinkLog(units[k])]_vars

(***************************************************************************)
(* The filenames of a per-angle batch.                                     *)
(***************************************************************************)
\* the selection of the request is made of distinct selectable angles
SelectableAngles ==
    /\ input.targetAngles.given
    /\ \A i \in 1..Len(input.targetAngles.list) :
          /\ \E n \in 1..Len(AVAILABLE_ANGLES) :
                input.targetAngles.list[i] = AVAILABLE_ANGLES[n]
          /\ \A j \in 1..Len(input.targetAngles.list) :
                i # j => input.targetAngles.list[i] # input.targetAngles.list[j]

\* C36 as stated: the results of a per-angle batch for pairwise distinct
\* angles of AVAILABLE_ANGLES have pairwise distinct filenames.
C36_Original ==
    (PerAngle /\ SelectableAngles /\ outcome.state = "resolved") =>
        \A i, j \in 1..Len(outcome.results) :
            i # j => outcome.results[i].filename # outcome.results[j].filename

(***************************************************************************)
(* No source image.                                                        *)
(***************************************************************************)
\* C37: with an empty list of source images and a credential, the per-image
\* strategy resolves to the empty list and the other three strategies
\* reject with the error of reading the file of the undefined primary
\* image; no remote call (analysis or generation) is issued, no backoff
\* wait is made and no unit is created.
C37_NoSourceImage ==
    (input.op = "process" /\ KnownStrategy /\ input.apiKey /\ NumImages = 0
       /\ pc # "start") =>
        /\ Dispatched
        /\ ~obs.remote /\ ~obs.waited
        /\ units = <<>> /\ primary = NoCtl
        /\ PerImage => outcome = Resolved(<<>>)
        /\ ~PerImage =>
              /\ outcome.state = "rejected"
              /\ outcome.error = ErrUndefinedFile

C37_Witness ==
    /\ Composite /\ input.apiKey /\ input.hasSink /\ NumImages = 0
    /\ outcome = Rejected(ErrUndefinedFile) /\ obs.sink /\ ~obs.remote

(***************************************************************************)
(* The App component (part_001): the handlers that write processingState.  *)
(* app.processing is processingState (without statusMessage, which no      *)
(* handler reads), app.runs the calls of processImagesWithGemini that      *)
(* handleProcess is awaiting, app.upscale the call of upscaleImage that     *)
(* handleUpscale is awaiting together with what its closure captured.  A   *)
(* result is [run, url]: the run that produced it and whether its image is *)
(* as generated ("gen"), cropped ("crop") or upscaled ("up").  The field   *)
(* reset of a run is history: the session was cleared or source images     *)
(* were added while the run was in flight.                                 *)
(***************************************************************************)
\* how many times Generate is clicked
MaxRuns == 2

IdleProcessing == [isProcessing |-> FALSE, error |-> "null", processedImages |-> <<>>]
NoUpscale == [active |-> FALSE]

InitApp ==
    /\ app = [mounted |-> TRUE, apiKey |-> TRUE, showKeyInput |-> FALSE,
              sourceImages |-> 0, selectedPreset |-> FALSE,
              processing |-> IdleProcessing, started |-> 0, runs |-> {},
              upscalingIndex |-> 0, upscale |-> NoUpscale]
    /\ input = IdleInput
    /\ pc = "idle"
    /\ primary = NoCtl
    /\ units = <<>>
    /\ completed = <<>>
    /\ outcome = Pending
    /\ obs = NoObs
    /\ rc = NoCtl
    /\ twin = NoCtl
    /\ gen = NoGen

appOnly == <<input, pc, primary, units, completed, outcome, obs, rc, twin, gen>>

\* the runs in flight, marked as overtaken by a reset of the session
Overtaken(runs) == {[r EXCEPT !.reset = TRUE] : r \in runs}

\* handleFileSelect with one file (part_001 337-363)
HandleFileSelect ==
    /\ app.mounted /\ app.sourceImages < MaxImages
    /\ app' = [app EXCEPT !.processing = IdleProcessing,
                          !.sourceImages = app.sourceImages + 1,
                          !.runs = Overtaken(app.runs)]
    /\ UNCHANGED appOnly

\* handleClear, the button 'Start Over' (part_001 475-482, 843-847)
HandleClear ==
    /\ app.mounted /\ app.sourceImages > 0
    /\ app' = [app EXCEPT !.processing = IdleProcessing,
                          !.sourceImages = 0,
                          !.selectedPreset = FALSE,
                          !.runs = Overtaken(app.runs)]
    /\ UNCHANGED appOnly

\* PresetSelector onSelect (part_001 925-930)
SelectPreset ==
    /\ app.mounted /\ ~app.processing.isProcessing /\ ~app.selectedPreset
    /\ app' = [app EXCEPT !.selectedPreset = TRUE]
    /\ UNCHANGED appOnly

\* the button 'Generate Assets' and handleProcess up to its await
\* (part_001 1425-1436, 484-523)
HandleProcessBegins ==
    /\ app.mounted /\ app.selectedPreset /\ ~app.processing.isProcessing
    /\ app.started < MaxRuns
    /\ IF ~app.apiKey
       THEN app' = [app EXCEPT !.showKeyInput = TRUE]
       ELSE IF app.sourceImages = 0
       THEN UNCHANGED app
       ELSE app' = [app EXCEPT
                       !.processing = [app.processing EXCEPT !.isProcessing = TRUE,
                                                             !.error = "null"],
                       !.started = app.started + 1,
                       !.runs = app.runs \cup {[id |-> app.started + 1,
                                                n |-> app.sourceImages,
                                                reset |-> FALSE]}]
    /\ UNCHANGED appOnly

\* handleProcess after its await: the run resolved to its results, or it
\* rejected with an error of the credential or another one (part_001 525-549)
HandleProcessResumes ==
    /\ \E r \in app.runs : \E settled \in {"resolved", "auth", "other"} :
         app' = [app EXCEPT
                    !.runs = app.runs \ {r},
                    !.apiKey = IF settled = "auth" THEN FALSE ELSE app.apiKey,
                    !.showKeyInput = IF settled = "auth" THEN TRUE ELSE app.showKeyInput,
                    !.processing =
                        IF settled = "resolved"
                        THEN [isProcessing |-> FALSE, error |-> "null",
                              processedImages |->
                                  [k \in 1..r.n |-> [run |-> r.id, url |-> "gen"]]]
                        ELSE [isProcessing |-> FALSE, error |-> settled,
                              processedImages |-> <<>>]]
    /\ UNCHANGED appOnly

\* the buttons 2K / 4K of result i and handleUpscale up to its await
\* (part_001 1474-1491, 553-562)
HandleUpscaleBegins ==
    /\ app.mounted /\ app.upscalingIndex = 0
    /\ \E i \in 1..Len(app.processing.processedImages) :
         IF ~app.apiKey
         THEN app' = [app EXCEPT !.showKeyInput = TRUE]
         ELSE app' = [app EXCEPT
                         !.upscalingIndex = i,
                         !.upscale = [active |-> TRUE, index |-> i,
                                      processedImg |-> app.processing.processedImages[i],
                                      processedImages |-> app.processing.processedImages]]
    /\ UNCHANGED appOnly

\* handleUpscale after its await: newImages is a copy of the list the
\* closure captured (part_001 564-580)
HandleUpscaleResumes ==
    /\ app.upscale.active
    /\ \E ok \in BOOLEAN :
         app' = [app EXCEPT
                    !.upscalingIndex = 0,
                    !.upscale = NoUpscale,
                    !.processing =
                        IF ok
                        THEN [app.processing EXCEPT !.processedImages =
                                 [app.upscale.processedImages EXCEPT
                                     ![app.upscale.index] =
                                         [app.upscale.processedImg EXCEPT !.url = "up"]]]
                        ELSE app.processing]
    /\ UNCHANGED appOnly

\* the crop of result i saved right after its dialog was opened
\* (part_001 1493-1494, 631-645, 657)
HandleSaveCrop ==
    /\ app.mounted
    /\ \E i \in 1..Len(app.processing.processedImages) :
         app' = [app EXCEPT !.processing.processedImages[i].url = "crop"]
    /\ UNCHANGED appOnly

NextApp ==
    \/ HandleFileSelect
    \/ HandleClear
    \/ SelectPreset
    \/ HandleProcessBegins
    \/ HandleProcessResumes
    \/ HandleUpscaleBegins
    \/ HandleUpscaleResumes
    \/ HandleSaveCrop

SpecApp == InitApp /\ [][NextApp]_vars

\* C38 as stated: at most one batch is in flight at any time, and a batch
\* that was in flight when the session was cleared or source images were
\* added leaves the processing state as it is when it completes.
C38_Original ==
    /\ [](Cardinality(app.runs) <= 1)
    /\ [][\A r \in app.runs :
             (r.reset /\ r \notin app'.runs /\ app'.sourceImages = app.sourceImages
                /\ app'.started = app.started)
                 => app'.processing = app.processing]_vars

\* C39 as stated: when the upscale of result i completes, every other entry
\* of processedImages keeps the value it has at that time.
C39_Original ==
    [][(app.upscale.active /\ ~app'.upscale.active) =>
          /\ Len(app'.processing.processedImages) = Len(app.processing.processedImages)
          /\ \A j \in 1..Len(app.processing.processedImages) :
                j # app.upscale.index =>
                    app'.processing.processedImages[j] = app.processing.processedImages[j]]_vars

====
